---- MODULE Spec2Model ----
(***************************************************************************)
(* The webhook subsystem of delivery-tracker: the registration store, the  *)
(* tracking cache, the three Bull queues and the monitor, delivery and     *)
(* cleanup workers.                                                        *)
(*                                                                         *)
(* Time is in seconds: the program's millisecond values divided by 1000,   *)
(* so that the 30 days of the longest registration fit TLC's integers.     *)
(* The clock advances in steps of one monitor interval and only while no   *)
(* monitor handler is running: a handler run is short against the          *)
(* interval.                                                               *)
(***************************************************************************)
EXTENDS Integers, Sequences, FiniteSets, TLC

VARIABLES
  now,           \* the wall clock, s
  webhooks,      \* WebhookRegistration table: sequence of rows, id = index
  monitorJobs,   \* tracking-monitor queue: the delayed jobs (next repeat instance, retries)
  mon,           \* the running tracking-monitor handler
  deliveryJobs,  \* webhook-delivery queue: every job ever added, id = index;
                 \* responses is history: what each fetch() of the job ended in
  del,           \* the running webhook-delivery handler
  logs,          \* WebhookDeliveryLog table: per delivery job, its rows in insert order
  cache,         \* TrackingCache.cache: key -> CacheEntry
  carrierData,   \* what carrier.track returns now, per tracking number
  observed,      \* history: the checksums each registration's ticks computed
  fill,          \* history: the distinct keys set() in a row since the cache was empty
  tracked,       \* history: the carrier.track calls of the last CacheTtl seconds
  inc,           \* the running incrementDeliveryAttempts calls of further workers
  reply,         \* what the last registerWebhook call returned or threw
  sums,          \* history: the computeChecksum calls made outside a monitor run
  service        \* WebhookService.close(): the store connection and the three queues

vars == <<now, webhooks, monitorJobs, mon, deliveryJobs, del, logs, cache,
          carrierData, observed, fill, tracked, inc, reply, sums, service>>

----------------------------------------------------------------------------
(* Bounds of the model *)

MaxTicks == 3
MaxWebhooks == 1
MaxDeliveryJobs == 2
SmallMaxSize == 2
MaxCallers == 3
MaxCallerClock == 2
MaxChecksums == 2
MaxEvents == 2
MaxCacheSteps == 3

(* Program constants *)

MAX_RETRY_ATTEMPTS == 4
DeliveryQueueAttempts == 4
DeliveryBackoffDelay == 60
MonitorQueueAttempts == 3
TrackingMonitorInterval == 3600
CacheTtl == 300
CacheMaxSize == 1000

----------------------------------------------------------------------------
(* Values *)

NoTime == -1

\* The queues in the order QueueManager.close() closes them.
Queues == <<"trackingMonitor", "webhookDelivery", "expirationCleanup">>

\* The service after init(): the store connected, every queue processing.
ServiceOpen ==
  [repository |-> "open", trackingMonitor |-> "open", webhookDelivery |-> "open",
   expirationCleanup |-> "open"]
NoChecksum == <<>>
Undefined == <<>>
Def(v) == <<v>>

Carriers == {"kr.cjlogistics"}
TrackingNumbers == {"100000001"}

\* JSON values.  Object keys are numbered in lexicographic order:
\* 1 = "code", 2 = "description", 3 = "name", 4 = "status", 5 = "time".
\* An object is the sequence of its <<key, value>> pairs in insertion order.
\* An array is the sequence of its <<index, value>> pairs.
Str(text) == [type |-> "string", text |-> text, v |-> <<>>]
Obj(pairs) == [type |-> "object", text |-> "", v |-> pairs]
Arr(items) == [type |-> "array", text |-> "", v |-> [k \in DOMAIN items |-> <<k, items[k]>>]]

EventInTransit == Obj(<< <<4, Str("InTransit")>>, <<5, Str("t1")>> >>)
EventInTransitReordered == Obj(<< <<5, Str("t1")>>, <<4, Str("InTransit")>> >>)
EventDelivered == Obj(<< <<4, Str("Delivered")>>, <<5, Str("t2")>> >>)

\* The TrackInfo values a carrier may answer with.
TrackInfos ==
  << [events |-> <<EventInTransit>>, sender |-> "s1"],
     [events |-> <<EventInTransitReordered>>, sender |-> "s2"],
     [events |-> <<EventInTransit, EventDelivered>>, sender |-> "s1"],
     [events |-> <<EventInTransit>>, sender |-> "s2"] >>

\* The answers that differ from each other in their events.
TrackInfoIds == {ti \in DOMAIN TrackInfos :
                   \A other \in 1..(ti - 1) : TrackInfos[other].events # TrackInfos[ti].events}

\* Insert a pair into a key-sorted sequence of pairs (Object.keys(value).sort()).
RECURSIVE InsertSorted(_, _)
InsertSorted(pair, sorted) ==
  IF sorted = <<>> THEN <<pair>>
  ELSE IF pair[1] <= Head(sorted)[1] THEN <<pair>> \o sorted
  ELSE <<Head(sorted)>> \o InsertSorted(pair, Tail(sorted))

RECURSIVE SortKeys(_)
SortKeys(obj) ==
  IF obj = <<>> THEN <<>>
  ELSE InsertSorted(Head(obj), SortKeys(Tail(obj)))

\* Variant: the keys of an object are left in insertion order.
RECURSIVE stringifyUnsorted(_)
stringifyUnsorted(value) ==
  IF value.type = "object"
  THEN Obj([k \in DOMAIN value.v |->
              <<value.v[k][1], stringifyUnsorted(value.v[k][2])>>])
  ELSE IF value.type = "array"
  THEN Arr([k \in DOMAIN value.v |-> stringifyUnsorted(value.v[k][2])])
  ELSE value

\* JSON.stringify(value, replacer): the replacer is applied to a value
\* before its members are visited, so the keys of every object, at every
\* depth, are written in sorted order; arrays keep their order.
RECURSIVE stringify(_)
stringify(value) ==
  IF value.type = "object"
  THEN Obj([k \in DOMAIN value.v |->
              <<SortKeys(value.v)[k][1], stringify(SortKeys(value.v)[k][2])>>])
  ELSE IF value.type = "array"
  THEN Arr([k \in DOMAIN value.v |-> stringify(value.v[k][2])])
  ELSE value

\* Variant: the sender is hashed with the events.
computeChecksumWithSender(trackInfo) ==
  <<"sha256", stringify(Arr(trackInfo.events)), trackInfo.sender>>

\* The SHA-256 digest is modelled as injective on the canonical JSON text.
computeChecksum(trackInfo) == <<"sha256", stringify(Arr(trackInfo.events))>>

ChecksumOf(ti) == computeChecksum(TrackInfos[ti])

----------------------------------------------------------------------------
(* Error texts.  A text is kept as its parts: the fixed wording (kind), the
   attempt number and the message it embeds. *)

NoMessage == [kind |-> "none", code |-> 0]
HttpMessage(statusCode) == [kind |-> "HTTP", code |-> statusCode]
RequestFailedMessage(reason) == [kind |-> "Request failed: " \o reason, code |-> 0]

NoError == [kind |-> "nil", n |-> 0, msg |-> NoMessage]
AttemptFailedError(n, msg) == [kind |-> "Delivery attempt failed", n |-> n, msg |-> msg]
FailedAfterError(n, msg) == [kind |-> "Delivery failed after attempts", n |-> n, msg |-> msg]
CarrierNotFoundError == [kind |-> "Carrier not found", n |-> 0, msg |-> NoMessage]
TrackingApiError == [kind |-> "Tracking API error", n |-> 0, msg |-> NoMessage]
JobProcessingError == [kind |-> "Job processing error", n |-> 0, msg |-> NoMessage]

----------------------------------------------------------------------------
(* Registration store (WebhookRepository over Prisma) *)

NewWebhook(carrierId, trackingNumber, expirationTime) ==
  [carrierId |-> carrierId, trackingNumber |-> trackingNumber,
   expirationTime |-> expirationTime, active |-> TRUE,
   lastChecksum |-> NoChecksum, lastCheckedAt |-> NoTime,
   deliveryAttempts |-> 0, lastDeliveryAt |-> NoTime, lastError |-> NoError]

\* prisma.webhookRegistration.update({where: {id}, data: input}): a key of
\* the input whose value is undefined is left out of the UPDATE; a key with
\* a value is written.
updateWebhook(rows, id, input) ==
  [rows EXCEPT ![id] =
     [f \in DOMAIN rows[id] |->
        IF f \in DOMAIN input /\ input[f] # Undefined
        THEN input[f][1] ELSE rows[id][f]]]

deactivateWebhook(rows, id) == updateWebhook(rows, id, [active |-> Def(FALSE)])

\* Variant: only registrations expired for a whole monitor interval.
findExpiredWebhooksLate(rows, t) ==
  {id \in DOMAIN rows :
     rows[id].active /\ rows[id].expirationTime + TrackingMonitorInterval < t}

findExpiredWebhooks(rows, t) ==
  {id \in DOMAIN rows : rows[id].active /\ rows[id].expirationTime < t}

deactivateExpiredWebhooks(rows, t) ==
  [id \in DOMAIN rows |->
     IF id \in findExpiredWebhooks(rows, t)
     THEN deactivateWebhook(rows, id)[id] ELSE rows[id]]

----------------------------------------------------------------------------
(* Delivery worker (WebhookDeliveryJob) *)

Statuses == {200, 304, 400, 401, 403, 404, 429, 500, 600}

\* What one fetch() can end in: a response with a status, or a rejection.
Outcomes ==
  [kind : {"response"}, status : Statuses]
    \cup {[kind |-> "network", status |-> 0], [kind |-> "timeout", status |-> 0]}

\* The answers drawn in the whole-system specification: one that succeeds
\* and one that is retried until the registration is deactivated.
SystemOutcomes == {o \in Outcomes : o.kind = "response" /\ o.status \in {200, 500}}

\* Variant: 404 is missing from the list.
nonRetryable4xxWithout404 == {400, 401, 403}

nonRetryable4xx == {400, 401, 403, 404}

\* Variant: the attempt cap is not tested.
shouldRetryUncapped(statusCode, attemptNumber) ==
  IF statusCode >= 500 /\ statusCode < 600 THEN TRUE
  ELSE IF statusCode >= 400 /\ statusCode < 500
       THEN IF statusCode \in nonRetryable4xx THEN FALSE
            ELSE attemptNumber < 2
  ELSE FALSE

\* Variant: other 4xx are retried on attempts 1 and 2.
shouldRetryOther4xxTwice(statusCode, attemptNumber) ==
  IF attemptNumber >= MAX_RETRY_ATTEMPTS THEN FALSE
  ELSE IF statusCode >= 500 /\ statusCode < 600 THEN TRUE
  ELSE IF statusCode >= 400 /\ statusCode < 500
       THEN IF statusCode \in nonRetryable4xx THEN FALSE
            ELSE attemptNumber <= 2
  ELSE FALSE

shouldRetry(statusCode, attemptNumber) ==
  IF attemptNumber >= MAX_RETRY_ATTEMPTS THEN FALSE
  ELSE IF statusCode >= 500 /\ statusCode < 600 THEN TRUE
  ELSE IF statusCode >= 400 /\ statusCode < 500
       THEN IF statusCode \in nonRetryable4xx THEN FALSE
            ELSE attemptNumber < 2
  ELSE FALSE

IsSuccessStatus(status) == status >= 200 /\ status < 300

\* Variant: a rejected request is never rethrown.
RetryOnRequestErrorNever(attemptNumber) == FALSE

\* The catch block: a rejected request is rethrown while attempts remain.
RetryOnRequestError(attemptNumber) == attemptNumber < MAX_RETRY_ATTEMPTS

\* Variant: counts from zero.
AttemptNumberFromZero(job) == job.attemptsMade

AttemptNumber(job) == job.attemptsMade + 1

\* The try/catch of process(): the values the finally block sees, and
\* whether an exception leaves the handler.  statusCode 0 is undefined.
Attempt(outcome, attemptNumber) ==
  IF outcome.kind = "response"
  THEN IF IsSuccessStatus(outcome.status)
       THEN [statusCode |-> outcome.status, success |-> TRUE,
             errorMessage |-> NoMessage, raised |-> FALSE]
       ELSE [statusCode |-> outcome.status, success |-> FALSE,
             errorMessage |-> HttpMessage(outcome.status),
             raised |-> shouldRetry(outcome.status, attemptNumber)]
  ELSE [statusCode |-> 0, success |-> FALSE,
        errorMessage |-> RequestFailedMessage(outcome.kind),
        raised |-> RetryOnRequestError(attemptNumber)]

\* Variant: exhaustion is tested before success.
FinalUpdateExhaustionFirst(success, attemptNumber, errorMessage) ==
  IF attemptNumber >= MAX_RETRY_ATTEMPTS
  THEN [active |-> Def(FALSE),
        lastError |-> Def(FailedAfterError(attemptNumber, errorMessage))]
  ELSE IF success THEN [lastError |-> Undefined]
  ELSE [lastError |-> Def(AttemptFailedError(attemptNumber, errorMessage))]

\* Variant: a success sets the registration active.
FinalUpdateReactivates(success, attemptNumber, errorMessage) ==
  IF success THEN [active |-> Def(TRUE), lastError |-> Undefined]
  ELSE IF attemptNumber >= MAX_RETRY_ATTEMPTS
       THEN [active |-> Def(FALSE),
             lastError |-> Def(FailedAfterError(attemptNumber, errorMessage))]
       ELSE [lastError |-> Def(AttemptFailedError(attemptNumber, errorMessage))]

\* Variant: every failed attempt that ends the job deactivates.
FinalUpdateDeactivatesOnFailure(success, attemptNumber, errorMessage) ==
  IF success THEN [lastError |-> Undefined]
  ELSE [active |-> Def(FALSE),
        lastError |-> Def(FailedAfterError(attemptNumber, errorMessage))]

\* The registration update of the finally block.
FinalUpdate(success, attemptNumber, errorMessage) ==
  IF success THEN [lastError |-> Undefined]
  ELSE IF attemptNumber >= MAX_RETRY_ATTEMPTS
       THEN [active |-> Def(FALSE),
             lastError |-> Def(FailedAfterError(attemptNumber, errorMessage))]
       ELSE [lastError |-> Def(AttemptFailedError(attemptNumber, errorMessage))]

\* Bull, when the processor of a job ends: a rejection counts an attempt and
\* the job is delayed for a retry while attempts remain, else it has failed.
\* Bull's built-in "exponential" back-off strategy, from the attempts made
\* so far (the failed one counted): round((2^attemptsMade - 1) * delay).
exponential(delay, attemptsMade) == (2 ^ attemptsMade - 1) * delay

JobAfterRun(job, raised, attempts) ==
  IF raised
  THEN IF job.attemptsMade + 1 < attempts
       THEN [job EXCEPT !.attemptsMade = @ + 1,
                        !.state = "delayed",
                        !.delays = Append(@, exponential(DeliveryBackoffDelay,
                                                         job.attemptsMade + 1))]
       ELSE [job EXCEPT !.attemptsMade = @ + 1, !.state = "failed"]
  ELSE [job EXCEPT !.state = "completed"]

IdleDelivery == [pc |-> "idle", job |-> 0, read |-> 0]

DeliveryStart(j) ==
  /\ service.webhookDelivery = "open"
  /\ del.pc = "idle"
  /\ deliveryJobs[j].state \in {"waiting", "delayed"}
  /\ deliveryJobs' = [deliveryJobs EXCEPT ![j].state = "active"]
  /\ del' = [pc |-> "incr", job |-> j,
             read |-> webhooks[deliveryJobs[j].webhookRegistrationId].deliveryAttempts]
  /\ UNCHANGED <<now, webhooks, monitorJobs, mon, logs, cache,
               carrierData, observed, fill, tracked, inc, reply, sums, service>>

DeliveryIncrement ==
  /\ del.pc = "incr"
  /\ webhooks' = updateWebhook(webhooks, deliveryJobs[del.job].webhookRegistrationId,
                     [deliveryAttempts |-> Def(del.read + 1),
                      lastDeliveryAt |-> Def(now)])
  /\ del' = [del EXCEPT !.pc = "posting"]
  /\ UNCHANGED <<now, monitorJobs, mon, deliveryJobs, logs, cache,
               carrierData, observed, fill, tracked, inc, reply, sums, service>>

DeliveryComplete(outcome) ==
  /\ del.pc = "posting"
  /\ LET job == deliveryJobs[del.job]
         id == job.webhookRegistrationId
         attemptNumber == AttemptNumber(job)
         a == Attempt(outcome, attemptNumber)
     IN /\ logs' = [logs EXCEPT ![del.job] = Append(@,
                       [webhookRegistrationId |-> id, attemptNumber |-> attemptNumber,
                        statusCode |-> a.statusCode, success |-> a.success,
                        errorMessage |-> a.errorMessage])]
        /\ webhooks' = updateWebhook(webhooks, id,
                          FinalUpdate(a.success, attemptNumber, a.errorMessage))
        /\ deliveryJobs' = [deliveryJobs EXCEPT
                              ![del.job] = [JobAfterRun(job, a.raised, DeliveryQueueAttempts)
                                              EXCEPT !.responses = Append(@, outcome)]]
  /\ del' = IdleDelivery
  /\ UNCHANGED <<now, monitorJobs, mon, cache, carrierData,
               observed, fill, tracked, inc, reply, sums, service>>

----------------------------------------------------------------------------
(* Tracking cache (TrackingCache): the Map as the sequence of its entries in
   insertion order. *)

buildKey(carrierId, trackingNumber) == carrierId \o ":" \o trackingNumber

CacheIndex(c, key) ==
  IF \E i \in 1..Len(c) : c[i].key = key
  THEN CHOOSE i \in 1..Len(c) : c[i].key = key ELSE 0

RemoveAt(c, i) == [k \in 1..(Len(c) - 1) |-> IF k < i THEN c[k] ELSE c[k + 1]]

\* Variant: an entry expires when its age reaches the TTL.
cacheGetExpiresAtTtl(c, key, t) ==
  LET i == CacheIndex(c, key)
  IN IF i = 0 THEN <<c, 0>>
     ELSE IF t - c[i].timestamp >= CacheTtl THEN <<RemoveAt(c, i), 0>>
     ELSE <<c, c[i].data>>

\* get(): <<the cache afterwards, the data or 0 for null>>
cacheGet(c, key, t) ==
  LET i == CacheIndex(c, key)
  IN IF i = 0 THEN <<c, 0>>
     ELSE IF t - c[i].timestamp > CacheTtl THEN <<RemoveAt(c, i), 0>>
     ELSE <<c, c[i].data>>

\* Variant: the entry of greatest timestamp is evicted.
evictNewest(c) ==
  IF c = <<>> THEN c
  ELSE RemoveAt(c, CHOOSE i \in 1..Len(c) :
                     /\ \A k \in 1..Len(c) : c[i].timestamp >= c[k].timestamp
                     /\ \A k \in (i + 1)..Len(c) : c[k].timestamp < c[i].timestamp)

\* evictOldest(): the first entry, in iteration order, of least timestamp.
evictOldest(c) ==
  IF c = <<>> THEN c
  ELSE RemoveAt(c, CHOOSE i \in 1..Len(c) :
                     /\ \A k \in 1..Len(c) : c[i].timestamp <= c[k].timestamp
                     /\ \A k \in 1..(i - 1) : c[k].timestamp > c[i].timestamp)

\* Variant: set() never evicts.
cacheSetNoEviction(c, maxSize, key, data, t) ==
  LET i == CacheIndex(c, key)
      entry == [key |-> key, data |-> data, timestamp |-> t]
  IN IF i = 0 THEN Append(c, entry) ELSE [c EXCEPT ![i] = entry]

\* set() of a cache constructed with the given maxSize.
cacheSetBounded(c, maxSize, key, data, t) ==
  LET c1 == IF Len(c) >= maxSize THEN evictOldest(c) ELSE c
      i == CacheIndex(c1, key)
      entry == [key |-> key, data |-> data, timestamp |-> t]
  IN IF i = 0 THEN Append(c1, entry) ELSE [c1 EXCEPT ![i] = entry]

\* set() of the cache the service constructs (default maxSize).
cacheSet(c, key, data, t) == cacheSetBounded(c, CacheMaxSize, key, data, t)

cacheInvalidate(c, key) ==
  IF CacheIndex(c, key) = 0 THEN c ELSE RemoveAt(c, CacheIndex(c, key))

cacheClear(c) == <<>>

\* History of set() calls: the distinct keys set in a row since the cache
\* was empty, up to maxSize + 1 of them; not filling once another call, a
\* repeated key or a further set() has come in between.
Filling(keys) == [filling |-> TRUE, keys |-> keys]
NotFilling == [filling |-> FALSE, keys |-> <<>>]

FillAfterSet(f, maxSize, key) ==
  IF /\ f.filling
     /\ Len(f.keys) <= maxSize
     /\ \A k \in DOMAIN f.keys : f.keys[k] # key
  THEN Filling(Append(f.keys, key))
  ELSE NotFilling

\* History of carrier calls: one record per carrier.track call.
TrackCall(key, t, ok) == [key |-> key, at |-> t, ok |-> ok]

RecentTrackCalls(calls, t) == SelectSeq(calls, LAMBDA call : t - call.at <= CacheTtl)

\* No further worker is inside incrementDeliveryAttempts.
NoCalls == <<>>

\* Results of registerWebhook.
NoReply == [kind |-> "none", id |-> 0]
Registered(id) == [kind |-> "id", id |-> id]
\* A thrown WebhookValidationError with its message, the message as the
\* sequence of its parts.
WebhookValidationError(message) ==
  [kind |-> "WebhookValidationError", id |-> 0, message |-> message]
IsValidationError(r) == r.kind = "WebhookValidationError"

cacheCleanup(c, t) == SelectSeq(c, LAMBDA e : ~(t - e.timestamp > CacheTtl))

----------------------------------------------------------------------------
(* Queue manager (QueueManager over Bull) *)

\* A repeatable job's instances carry ids Bull derives ("repeat:<hash>:<ms>"),
\* not the jobId option; getJob(id) looks an id up as given.
RepeatJobId(id) == [repeat |-> TRUE, id |-> id]
PlainJobId(id) == [repeat |-> FALSE, id |-> id]

addRepeatingTrackingMonitorJob(jobs, id, t) ==
  jobs \cup {[jobId |-> RepeatJobId(id), webhookRegistrationId |-> id,
              attemptsMade |-> 0, runAt |-> t + TrackingMonitorInterval]}

removeTrackingMonitorJob(jobs, id) ==
  jobs \ {j \in jobs : j.jobId = PlainJobId(id)}

\* Variant: the job data leaves the previous checksum out.
NewDeliveryJobWithoutPrevious(id, trackInfo, previousChecksum, currentChecksum) ==
  [webhookRegistrationId |-> id, trackInfo |-> trackInfo,
   previousChecksum |-> NoChecksum, currentChecksum |-> currentChecksum,
   attemptsMade |-> 0, state |-> "waiting", responses |-> <<>>, delays |-> <<>>]

NewDeliveryJob(id, trackInfo, previousChecksum, currentChecksum) ==
  [webhookRegistrationId |-> id, trackInfo |-> trackInfo,
   previousChecksum |-> previousChecksum, currentChecksum |-> currentChecksum,
   attemptsMade |-> 0, state |-> "waiting", responses |-> <<>>, delays |-> <<>>]

\* Variant: a rejected instance is never retried.
MonitorJobsAfterThrowNoRetry(jobs, id, attemptsMade, t) == jobs

\* Bull, when the monitor processor rejects: the instance is retried while
\* attempts remain.  The back-off is short against the clock step.
MonitorJobsAfterThrow(jobs, id, attemptsMade, t) ==
  IF attemptsMade + 1 < MonitorQueueAttempts
  THEN jobs \cup {[jobId |-> RepeatJobId(id), webhookRegistrationId |-> id,
                   attemptsMade |-> attemptsMade + 1, runAt |-> t]}
  ELSE jobs

----------------------------------------------------------------------------
(* Monitor worker (TrackingMonitorJob) *)

IdleMonitor ==
  [pc |-> "idle", id |-> 0, attemptsMade |-> 0, lastChecksum |-> NoChecksum,
   trackInfo |-> 0]

\* The cache key of the registration the monitor handler runs for.
MonitorKey == buildKey(webhooks[mon.id].carrierId, webhooks[mon.id].trackingNumber)

\* Variant: every tick counts as a change.
NoChangeNever(lastChecksum, currentChecksum) == FALSE

\* The test that guards the no-change branch.
NoChange(lastChecksum, currentChecksum) ==
  lastChecksum # NoChecksum /\ lastChecksum = currentChecksum

\* Bull takes a due instance, schedules the next repeat, and runs process()
\* up to the carrier call: load, inactive and expiry checks, carrier
\* lookup, cache read.
MonitorStart(j) ==
  /\ service.trackingMonitor = "open"
  /\ mon.pc = "idle"
  /\ j \in monitorJobs
  /\ now >= j.runAt
  /\ LET id == j.webhookRegistrationId
         webhook == webhooks[id]
         queued == addRepeatingTrackingMonitorJob(monitorJobs \ {j}, id, now)
         key == buildKey(webhook.carrierId, webhook.trackingNumber)
         got == cacheGet(cache, key, now)
     IN IF ~webhook.active
        THEN /\ monitorJobs' = removeTrackingMonitorJob(queued, id)
             /\ mon' = IdleMonitor
             /\ UNCHANGED <<webhooks, cache, fill>>
        ELSE IF now > webhook.expirationTime
        THEN /\ webhooks' = deactivateWebhook(webhooks, id)
             /\ monitorJobs' = removeTrackingMonitorJob(queued, id)
             /\ mon' = IdleMonitor
             /\ UNCHANGED <<cache, fill>>
        ELSE IF webhook.carrierId \notin Carriers
        THEN /\ webhooks' = updateWebhook(webhooks, id,
                               [lastError |-> Def(CarrierNotFoundError),
                                lastCheckedAt |-> Def(now)])
             /\ monitorJobs' = queued
             /\ mon' = IdleMonitor
             /\ UNCHANGED <<cache, fill>>
        ELSE /\ monitorJobs' = queued
             /\ cache' = got[1]
             /\ fill' = NotFilling
             /\ mon' = [pc |-> IF got[2] = 0 THEN "tracking" ELSE "tracked",
                        id |-> id, attemptsMade |-> j.attemptsMade,
                        lastChecksum |-> webhook.lastChecksum, trackInfo |-> got[2]]
             /\ UNCHANGED webhooks
  /\ UNCHANGED <<now, deliveryJobs, del, logs, carrierData, observed, tracked, inc, reply, sums, service>>

\* Variant: the result of carrier.track() is not cached.
MonitorTrackOkNotCached ==
  /\ mon.pc = "tracking"
  /\ tracked' = Append(tracked, TrackCall(MonitorKey, now, TRUE))
  /\ mon' = [mon EXCEPT !.pc = "tracked",
                        !.trackInfo = carrierData[webhooks[mon.id].trackingNumber]]
  /\ UNCHANGED <<now, webhooks, monitorJobs, deliveryJobs, del, logs, cache,
                 carrierData, observed, fill, inc, reply, sums, service>>

\* carrier.track() answers: the result is cached.
MonitorTrackOk ==
  /\ mon.pc = "tracking"
  /\ LET webhook == webhooks[mon.id]
         trackInfo == carrierData[webhook.trackingNumber]
         key == buildKey(webhook.carrierId, webhook.trackingNumber)
     IN /\ cache' = cacheSet(cache, key, trackInfo, now)
        /\ fill' = FillAfterSet(fill, CacheMaxSize, key)
        /\ tracked' = Append(tracked, TrackCall(key, now, TRUE))
        /\ mon' = [mon EXCEPT !.pc = "tracked", !.trackInfo = trackInfo]
  /\ UNCHANGED <<now, webhooks, monitorJobs, deliveryJobs, del,
               logs, carrierData, observed, inc, reply, sums, service>>

\* Variant: the carrier error is recorded as a job error and rethrown.
MonitorTrackFailsAndRaises ==
  /\ mon.pc = "tracking"
  /\ tracked' = Append(tracked, TrackCall(MonitorKey, now, FALSE))
  /\ webhooks' = updateWebhook(webhooks, mon.id,
                    [lastCheckedAt |-> Def(now), lastError |-> Def(JobProcessingError)])
  /\ monitorJobs' = MonitorJobsAfterThrow(monitorJobs, mon.id, mon.attemptsMade, now)
  /\ mon' = IdleMonitor
  /\ UNCHANGED <<now, deliveryJobs, del, logs, cache,
               carrierData, observed, fill, inc, reply, sums, service>>

\* carrier.track() rejects: recorded, the handler returns normally.
MonitorTrackFails ==
  /\ mon.pc = "tracking"
  /\ tracked' = Append(tracked, TrackCall(MonitorKey, now, FALSE))
  /\ webhooks' = updateWebhook(webhooks, mon.id,
                    [lastCheckedAt |-> Def(now), lastError |-> Def(TrackingApiError)])
  /\ mon' = IdleMonitor
  /\ UNCHANGED <<now, monitorJobs, deliveryJobs, del, logs,
               cache, carrierData, observed, fill, inc, reply, sums, service>>

\* Variant: the no-change branch returns without the update.
MonitorNoChangeNoUpdate ==
  /\ mon.pc = "tracked"
  /\ NoChange(mon.lastChecksum, ChecksumOf(mon.trackInfo))
  /\ observed' = [observed EXCEPT ![mon.id] = @ \cup {ChecksumOf(mon.trackInfo)}]
  /\ mon' = IdleMonitor
  /\ UNCHANGED <<now, webhooks, monitorJobs, deliveryJobs, del, logs,
               cache, carrierData, fill, tracked, inc, reply, sums, service>>

\* Variant: the no-change branch also clears lastError.
MonitorNoChangeClearsError ==
  /\ mon.pc = "tracked"
  /\ NoChange(mon.lastChecksum, ChecksumOf(mon.trackInfo))
  /\ webhooks' = updateWebhook(webhooks, mon.id,
                    [lastCheckedAt |-> Def(now), lastError |-> Def(NoError)])
  /\ observed' = [observed EXCEPT ![mon.id] = @ \cup {ChecksumOf(mon.trackInfo)}]
  /\ mon' = IdleMonitor
  /\ UNCHANGED <<now, monitorJobs, deliveryJobs, del, logs,
               cache, carrierData, fill, tracked, inc, reply, sums, service>>

\* Checksum equal to the one loaded: only lastCheckedAt is written.
MonitorNoChange ==
  /\ mon.pc = "tracked"
  /\ NoChange(mon.lastChecksum, ChecksumOf(mon.trackInfo))
  /\ webhooks' = updateWebhook(webhooks, mon.id, [lastCheckedAt |-> Def(now)])
  /\ observed' = [observed EXCEPT ![mon.id] = @ \cup {ChecksumOf(mon.trackInfo)}]
  /\ mon' = IdleMonitor
  /\ UNCHANGED <<now, monitorJobs, deliveryJobs, del, logs,
               cache, carrierData, fill, tracked, inc, reply, sums, service>>

\* Change detected and addWebhookDeliveryJob() resolves.
MonitorEnqueue ==
  /\ mon.pc = "tracked"
  /\ ~NoChange(mon.lastChecksum, ChecksumOf(mon.trackInfo))
  /\ Len(deliveryJobs) < MaxDeliveryJobs
  /\ deliveryJobs' = Append(deliveryJobs,
                        NewDeliveryJob(mon.id, mon.trackInfo, mon.lastChecksum,
                                       ChecksumOf(mon.trackInfo)))
  /\ logs' = Append(logs, <<>>)
  /\ observed' = [observed EXCEPT ![mon.id] = @ \cup {ChecksumOf(mon.trackInfo)}]
  /\ mon' = [mon EXCEPT !.pc = "enqueued"]
  /\ UNCHANGED <<now, webhooks, monitorJobs, del, cache,
               carrierData, fill, tracked, inc, reply, sums, service>>

\* Variant: the checksum is stored before the enqueue, which then rejects.
MonitorEnqueueFailsAfterWrite ==
  /\ mon.pc = "tracked"
  /\ ~NoChange(mon.lastChecksum, ChecksumOf(mon.trackInfo))
  /\ webhooks' = updateWebhook(webhooks, mon.id,
                    [lastChecksum |-> Def(ChecksumOf(mon.trackInfo)),
                     lastCheckedAt |-> Def(now), lastError |-> Def(JobProcessingError)])
  /\ monitorJobs' = MonitorJobsAfterThrow(monitorJobs, mon.id, mon.attemptsMade, now)
  /\ observed' = [observed EXCEPT ![mon.id] = @ \cup {ChecksumOf(mon.trackInfo)}]
  /\ mon' = IdleMonitor
  /\ UNCHANGED <<now, deliveryJobs, del, logs, cache,
               carrierData, fill, tracked, inc, reply, sums, service>>

\* Change detected and addWebhookDeliveryJob() rejects: the catch block
\* records the error and rethrows.
MonitorEnqueueFails ==
  /\ mon.pc = "tracked"
  /\ ~NoChange(mon.lastChecksum, ChecksumOf(mon.trackInfo))
  /\ webhooks' = updateWebhook(webhooks, mon.id,
                    [lastCheckedAt |-> Def(now), lastError |-> Def(JobProcessingError)])
  /\ monitorJobs' = MonitorJobsAfterThrow(monitorJobs, mon.id, mon.attemptsMade, now)
  /\ observed' = [observed EXCEPT ![mon.id] = @ \cup {ChecksumOf(mon.trackInfo)}]
  /\ mon' = IdleMonitor
  /\ UNCHANGED <<now, deliveryJobs, del, logs, cache,
               carrierData, fill, tracked, inc, reply, sums, service>>

\* After the enqueue: the new checksum is stored.
MonitorWriteChecksum ==
  /\ mon.pc = "enqueued"
  /\ webhooks' = updateWebhook(webhooks, mon.id,
                    [lastChecksum |-> Def(ChecksumOf(mon.trackInfo)),
                     lastCheckedAt |-> Def(now),
                     lastError |-> Undefined])
  /\ mon' = IdleMonitor
  /\ UNCHANGED <<now, monitorJobs, deliveryJobs, del, logs, cache,
               carrierData, observed, fill, tracked, inc, reply, sums, service>>

----------------------------------------------------------------------------
(* Cleanup worker, service facade, environment *)

Cleanup ==
  /\ service.expirationCleanup = "open"
  /\ webhooks' = deactivateExpiredWebhooks(webhooks, now)
  /\ cache' = cacheCleanup(cache, now)
  /\ fill' = NotFilling
  /\ UNCHANGED <<now, monitorJobs, mon, deliveryJobs, del,
               logs, carrierData, observed, tracked, inc, reply, sums, service>>

\* Lifetimes a registration is created with: one and several monitor intervals.
Lifetimes == {TrackingMonitorInterval, (MaxTicks + 1) * TrackingMonitorInterval}

Register(carrierId, trackingNumber, lifetime) ==
  /\ Len(webhooks) < MaxWebhooks
  /\ webhooks' = Append(webhooks, NewWebhook(carrierId, trackingNumber, now + lifetime))
  /\ monitorJobs' = addRepeatingTrackingMonitorJob(monitorJobs, Len(webhooks) + 1, now)
  /\ observed' = Append(observed, {})
  /\ reply' = Registered(Len(webhooks) + 1)
  /\ UNCHANGED <<now, mon, deliveryJobs, del, logs, cache, carrierData, fill, tracked,
               inc, sums, service>>

Deactivate(id) ==
  /\ id \in DOMAIN webhooks
  /\ webhooks' = deactivateWebhook(webhooks, id)
  /\ monitorJobs' = removeTrackingMonitorJob(monitorJobs, id)
  /\ UNCHANGED <<now, mon, deliveryJobs, del, logs, cache,
               carrierData, observed, fill, tracked, inc, reply, sums, service>>

\* The carrier's answer for a tracking number changes.
CarrierChange(trackingNumber, trackInfo) ==
  /\ carrierData[trackingNumber] # trackInfo
  /\ carrierData' = [carrierData EXCEPT ![trackingNumber] = trackInfo]
  /\ UNCHANGED <<now, webhooks, monitorJobs, mon, deliveryJobs, del,
               logs, cache, observed, fill, tracked, inc, reply, sums, service>>

Tick ==
  /\ now < MaxTicks * TrackingMonitorInterval
  /\ mon.pc = "idle"
  /\ \A j \in monitorJobs : j.attemptsMade = 0
  /\ now' = now + TrackingMonitorInterval
  /\ tracked' = RecentTrackCalls(tracked, now + TrackingMonitorInterval)
  /\ UNCHANGED <<webhooks, monitorJobs, mon, deliveryJobs, del, logs,
               cache, carrierData, observed, fill, inc, reply, sums, service>>

----------------------------------------------------------------------------

Init ==
  /\ now = 0
  /\ webhooks = <<>>
  /\ monitorJobs = {}
  /\ mon = IdleMonitor
  /\ deliveryJobs = <<>>
  /\ del = IdleDelivery
  /\ logs = <<>>
  /\ cache = <<>>
  /\ carrierData = [tn \in TrackingNumbers |-> 1]
  /\ observed = <<>>
  /\ fill = Filling(<<>>)
  /\ tracked = <<>>
  /\ inc = NoCalls
  /\ reply = NoReply
  /\ sums = <<>>
  /\ service = ServiceOpen

Next ==
  \/ \E c \in Carriers, tn \in TrackingNumbers, l \in Lifetimes : Register(c, tn, l)
  \/ \E id \in DOMAIN webhooks : Deactivate(id)
  \/ \E j \in monitorJobs : MonitorStart(j)
  \/ MonitorTrackOk
  \/ MonitorTrackFails
  \/ MonitorNoChange
  \/ MonitorEnqueue
  \/ MonitorEnqueueFails
  \/ MonitorWriteChecksum
  \/ \E j \in DOMAIN deliveryJobs : DeliveryStart(j)
  \/ DeliveryIncrement
  \/ \E o \in SystemOutcomes : DeliveryComplete(o)
  \/ Cleanup
  \/ \E tn \in TrackingNumbers, ti \in TrackInfoIds : CarrierChange(tn, ti)
  \/ Tick

Spec == Init /\ [][Next]_vars

----------------------------------------------------------------------------
(* The delivery worker on one queued job: the state after a registration's
   first monitor tick has enqueued its delivery, the callback answering with
   any outcome, and the facade deactivating at any moment. *)

InitDelivery ==
  /\ now = TrackingMonitorInterval
  /\ \E e \in {NoError, JobProcessingError} :
       webhooks = <<[NewWebhook("kr.cjlogistics", "100000001",
                                (MaxTicks + 1) * TrackingMonitorInterval)
                       EXCEPT !.lastChecksum = ChecksumOf(1),
                              !.lastCheckedAt = TrackingMonitorInterval,
                              !.lastError = e]>>
  /\ monitorJobs = addRepeatingTrackingMonitorJob({}, 1, TrackingMonitorInterval)
  /\ mon = IdleMonitor
  /\ deliveryJobs = <<NewDeliveryJob(1, 1, NoChecksum, ChecksumOf(1))>>
  /\ del = IdleDelivery
  /\ logs = << <<>> >>
  /\ cache = <<[key |-> buildKey("kr.cjlogistics", "100000001"), data |-> 1,
                timestamp |-> TrackingMonitorInterval]>>
  /\ carrierData = [tn \in TrackingNumbers |-> 1]
  /\ observed = <<{ChecksumOf(1)}>>
  /\ fill = NotFilling
  /\ tracked = <<TrackCall(buildKey("kr.cjlogistics", "100000001"),
                         TrackingMonitorInterval, TRUE)>>
  /\ inc = NoCalls
  /\ reply = Registered(1)
  /\ sums = <<>>
  /\ service = ServiceOpen

NextDelivery ==
  \/ \E j \in DOMAIN deliveryJobs : DeliveryStart(j)
  \/ DeliveryIncrement
  \/ \E o \in Outcomes : DeliveryComplete(o)
  \/ \E id \in DOMAIN webhooks : Deactivate(id)

SpecDelivery == InitDelivery /\ [][NextDelivery]_vars

----------------------------------------------------------------------------
(* Properties of the delivery worker, checked under SpecDelivery *)

Registration(j) == webhooks[deliveryJobs[j].webhookRegistrationId]

Response(status) == [kind |-> "response", status |-> status]

\* Every fetch() of job j so far was answered with this status.
AllAnswered(j, status) ==
  /\ deliveryJobs[j].responses # <<>>
  /\ \A k \in DOMAIN deliveryJobs[j].responses :
        deliveryJobs[j].responses[k] = Response(status)

LastResponse(j) == deliveryJobs[j].responses[Len(deliveryJobs[j].responses)]

AllFailed(rows) == \A k \in DOMAIN rows : ~rows[k].success

\* The step in which the handler running job j ends.
HandlerEnds(j) == del.pc = "posting" /\ del.job = j /\ del'.pc = "idle"

\* What the handler of job j did in the step it ended in.
Raised(j) ==
  /\ deliveryJobs'[j].attemptsMade = deliveryJobs[j].attemptsMade + 1
  /\ deliveryJobs'[j].state \in {"delayed", "failed"}

Returned(j) ==
  /\ deliveryJobs'[j].attemptsMade = deliveryJobs[j].attemptsMade
  /\ deliveryJobs'[j].state = "completed"

\* No handler runs for a job that has completed or failed.
NoLaterAttempt(j) ==
  deliveryJobs[j].state \in {"completed", "failed"}
    => deliveryJobs'[j] = deliveryJobs[j] /\ logs'[j] = logs[j]

\* C1: a job answered 500 on every attempt runs four attempts, raising on
\* attempts 1 to 3 and returning on attempt 4; then it has four logs, all
\* failed, the registration is inactive and lastError reads "failed after 4
\* attempts".
C1_ExhaustionOn500 ==
  \A j \in DOMAIN deliveryJobs :
    AllAnswered(j, 500) =>
      LET job == deliveryJobs[j]
          n == Len(job.responses)
      IN /\ n <= 4
         /\ n < 4 => job.attemptsMade = n /\ job.state \in {"delayed", "active"}
         /\ n = 4 => /\ job.attemptsMade = 3
                     /\ job.state = "completed"
                     /\ Len(logs[j]) = 4
                     /\ AllFailed(logs[j])
                     /\ ~Registration(j).active
                     /\ Registration(j).lastError =
                          FailedAfterError(4, HttpMessage(500))

C1_Witness ==
  \E j \in DOMAIN deliveryJobs :
    /\ AllAnswered(j, 500)
    /\ Len(deliveryJobs[j].responses) = 4
    /\ deliveryJobs[j].state = "completed"

C4_SuccessClearsLastError ==
  \A j \in DOMAIN deliveryJobs :
    (/\ deliveryJobs[j].state = "completed"
     /\ LastResponse(j).kind = "response"
     /\ IsSuccessStatus(LastResponse(j).status))
    => Registration(j).lastError = NoError

\* C5: a 2xx answer on any attempt appends one log with success=true for
\* that attempt and the handler returns without a raise; the active flag is
\* left as it was and no later attempt of the job runs.
C5_SuccessEndsJob ==
  [][\A j \in DOMAIN deliveryJobs :
       /\ NoLaterAttempt(j)
       /\ (/\ HandlerEnds(j)
           /\ LastResponse(j)'.kind = "response"
           /\ LastResponse(j)'.status >= 200 /\ LastResponse(j)'.status < 300)
          => /\ Returned(j)
             /\ logs'[j] = Append(logs[j],
                   [webhookRegistrationId |-> deliveryJobs[j].webhookRegistrationId,
                    attemptNumber |-> deliveryJobs[j].attemptsMade + 1,
                    statusCode |-> LastResponse(j)'.status,
                    success |-> TRUE, errorMessage |-> NoMessage])
             /\ Registration(j)'.active = Registration(j).active]_vars

C5_Witness ==
  \E j \in DOMAIN deliveryJobs :
    /\ deliveryJobs[j].state = "completed"
    /\ Len(deliveryJobs[j].responses) = 4
    /\ LastResponse(j) = Response(200)
    /\ Registration(j).active

OutsideStatusClasses(outcome) ==
  outcome.kind = "response" /\ ~(outcome.status >= 200 /\ outcome.status < 600)

RequestRejected(outcome) == outcome.kind \in {"network", "timeout"}

C7_OneLogPerAttempt ==
  \A j \in DOMAIN deliveryJobs :
    LET job == deliveryJobs[j]
        k == Len(logs[j])
    IN /\ k = Len(job.responses)
       /\ k <= 4
       /\ \A i \in 1..k : logs[j][i].attemptNumber = i
       /\ job.attemptsMade = IF job.state = "completed" THEN k - 1 ELSE k

C7_Witness ==
  \E j \in DOMAIN deliveryJobs :
    /\ Len(logs[j]) = 3
    /\ deliveryJobs[j].state = "delayed"
    /\ logs[j][3].statusCode = 0

----------------------------------------------------------------------------
(* Properties of the tracking monitor, checked under Spec *)

JobsOf(id) ==
  SelectSeq(deliveryJobs, LAMBDA job : job.webhookRegistrationId = id)

\* The checksum the running monitor handler computed.
Computed == ChecksumOf(mon.trackInfo)

\* The step in which the running handler, having detected a change, ends
\* without a delivery job: addWebhookDeliveryJob() rejected.
EnqueueFailed ==
  /\ mon.pc = "tracked"
  /\ ~NoChange(mon.lastChecksum, Computed)
  /\ mon'.pc = "idle"

\* C8: lastChecksum is written only by a handler whose delivery job for
\* that checksum is already in the queue.  When the enqueue fails,
\* lastChecksum is left as it was and the error propagates to the queue,
\* which retries the instance while attempts remain; the stored checksum
\* still differs from the computed one, so a later run detects the change.
C8_ChecksumAfterEnqueue ==
  [][\A id \in DOMAIN webhooks :
       /\ webhooks'[id].lastChecksum # webhooks[id].lastChecksum
          => /\ mon.pc = "enqueued" /\ mon.id = id
             /\ deliveryJobs' = deliveryJobs
             /\ deliveryJobs[Len(deliveryJobs)].webhookRegistrationId = id
             /\ deliveryJobs[Len(deliveryJobs)].currentChecksum =
                  webhooks'[id].lastChecksum
       /\ (EnqueueFailed /\ mon.id = id)
          => /\ webhooks'[id].lastChecksum = webhooks[id].lastChecksum
             /\ deliveryJobs' = deliveryJobs
             /\ webhooks'[id].lastError = JobProcessingError
             /\ monitorJobs' =
                  MonitorJobsAfterThrow(monitorJobs, id, mon.attemptsMade, now)
             /\ ~NoChange(webhooks'[id].lastChecksum, Computed)]_vars

\* A failed enqueue was followed by a run that enqueued and stored the
\* checksum (the error text of the failed run is still in lastError).
C8_Witness ==
  \E id \in DOMAIN webhooks :
    /\ webhooks[id].lastError = JobProcessingError
    /\ webhooks[id].lastChecksum # NoChecksum
    /\ Len(JobsOf(id)) = 1
    /\ JobsOf(id)[1].currentChecksum = webhooks[id].lastChecksum

\* C9: a tick that computes a checksum d different from the stored c
\* enqueues one delivery job carrying (previous = c, current = d) and then
\* stores d.  Hence the jobs of a registration form a chain: each job's
\* previous checksum is the current checksum of the job before it, no job
\* has equal previous and current checksums, and the stored checksum is
\* the current checksum of the last job (its previous checksum between the
\* enqueue and the store): no second job is enqueued for the change c -> d.
C9_OneJobPerChange ==
  \A id \in DOMAIN webhooks :
    LET J == JobsOf(id)
        storing == mon.pc = "enqueued" /\ mon.id = id
    IN /\ \A k \in DOMAIN J :
            /\ J[k].currentChecksum # J[k].previousChecksum
            /\ J[k].previousChecksum =
                 IF k = 1 THEN NoChecksum ELSE J[k - 1].currentChecksum
            /\ J[k].currentChecksum = ChecksumOf(J[k].trackInfo)
       /\ storing => /\ J # <<>>
                     /\ J[Len(J)].currentChecksum = Computed
                     /\ J[Len(J)].trackInfo = mon.trackInfo
       /\ webhooks[id].lastChecksum =
            IF J = <<>> THEN NoChecksum
            ELSE IF storing THEN J[Len(J)].previousChecksum
            ELSE J[Len(J)].currentChecksum

\* A change c -> d was delivered once and the next tick, observing d,
\* enqueued nothing.
C9_Witness ==
  \E id \in DOMAIN webhooks :
    /\ Len(JobsOf(id)) = 2
    /\ webhooks[id].lastChecksum = JobsOf(id)[2].currentChecksum
    /\ webhooks[id].lastCheckedAt = 3 * TrackingMonitorInterval
    /\ now = 3 * TrackingMonitorInterval
    /\ mon.pc = "idle"
    /\ del.pc = "idle"
    /\ \A k \in {1, 2} : deliveryJobs[k].state = "completed"

\* The carrier has answered every tick of the registration with the same
\* events.
Stable(id) == Cardinality(observed[id]) <= 1

\* C10 as stated: while the carrier answers every tick with the same
\* events, no delivery job is enqueued for the registration, the first
\* tick included.
C10_StableNoDelivery ==
  \A id \in DOMAIN webhooks : Stable(id) => JobsOf(id) = <<>>

\* C10: while the carrier answers every tick with the same events, the
\* first tick, which finds no stored checksum, enqueues one delivery job
\* without a previous checksum and stores the checksum; no other job is
\* enqueued and the stored checksum never changes again; every later tick
\* writes the time of the tick to lastCheckedAt, a time later than the one
\* stored.
C10_StableOneDelivery ==
  /\ [](\A id \in DOMAIN webhooks :
          Stable(id) =>
            /\ Len(JobsOf(id)) <= 1
            /\ \A k \in DOMAIN JobsOf(id) :
                 /\ JobsOf(id)[k].previousChecksum = NoChecksum
                 /\ JobsOf(id)[k].currentChecksum \in observed[id]
            /\ webhooks[id].lastChecksum \in {NoChecksum} \cup observed[id])
  /\ [][\A id \in DOMAIN webhooks :
          Stable(id)' =>
            /\ webhooks[id].lastChecksum # NoChecksum
               => /\ webhooks'[id].lastChecksum = webhooks[id].lastChecksum
                  /\ Len(JobsOf(id)') = Len(JobsOf(id))
            /\ (/\ mon.pc = "tracked" /\ mon.id = id
                /\ mon.lastChecksum # NoChecksum
                /\ mon'.pc = "idle")
               => /\ webhooks'[id].lastCheckedAt = now
                  /\ webhooks'[id].lastCheckedAt > webhooks[id].lastCheckedAt]_vars

C10_Witness ==
  \E id \in DOMAIN webhooks :
    /\ Stable(id)
    /\ Len(JobsOf(id)) = 1
    /\ webhooks[id].lastChecksum # NoChecksum
    /\ webhooks[id].lastCheckedAt = 3 * TrackingMonitorInterval

----------------------------------------------------------------------------
(* End-to-end properties, checked under Spec *)

JobIdsOf(id) ==
  {j \in DOMAIN deliveryJobs : deliveryJobs[j].webhookRegistrationId = id}

RECURSIVE SumOfResponses(_)
SumOfResponses(jobs) ==
  IF jobs = <<>> THEN 0 ELSE Len(Head(jobs).responses) + SumOfResponses(Tail(jobs))

\* The number of POSTs made to the callback of a registration.
PostsTo(id) == SumOfResponses(JobsOf(id))

\* A registration created at time 0 has had two monitor ticks that ran
\* without error and saw two different timelines, and every delivery job of
\* it has been answered 200 and is complete.
TwoTicksDelivered(id) ==
  /\ now = 2 * TrackingMonitorInterval
  /\ webhooks[id].lastCheckedAt = 2 * TrackingMonitorInterval
  /\ webhooks[id].lastError = NoError
  /\ Cardinality(observed[id]) = 2
  /\ mon.pc = "idle"
  /\ \A j \in JobIdsOf(id) :
       /\ deliveryJobs[j].state = "completed"
       /\ \A k \in DOMAIN deliveryJobs[j].responses :
            deliveryJobs[j].responses[k] = Response(200)

\* C11 as stated: after the two ticks exactly one POST has been made to the
\* callback.
C11_TwoTicksOnePost ==
  \A id \in DOMAIN webhooks : TwoTicksDelivered(id) => PostsTo(id) = 1

\* C11: a new registration whose carrier returns one timeline on the first
\* poll and a changed one on the second, with the callback answering 200,
\* has after the two ticks exactly two POSTs: the first carries the first
\* timeline without a previous checksum, the second carries the changed
\* timeline with the first checksum as previous; each is attempt 1 of its
\* job, and the stored checksum is the checksum of the changed timeline.
C11_TwoTicksTwoPosts ==
  \A id \in DOMAIN webhooks :
    TwoTicksDelivered(id) =>
      LET J == JobsOf(id)
      IN /\ PostsTo(id) = 2
         /\ Len(J) = 2
         /\ J[1].previousChecksum = NoChecksum
         /\ J[1].currentChecksum = ChecksumOf(J[1].trackInfo)
         /\ J[2].previousChecksum = J[1].currentChecksum
         /\ J[2].currentChecksum = ChecksumOf(J[2].trackInfo)
         /\ J[2].currentChecksum # J[1].currentChecksum
         /\ webhooks[id].lastChecksum = ChecksumOf(J[2].trackInfo)
         /\ \A j \in JobIdsOf(id) :
              /\ Len(logs[j]) = 1
              /\ logs[j][1].attemptNumber = 1
              /\ logs[j][1].success

C11_Witness ==
  \E id \in DOMAIN webhooks :
    /\ TwoTicksDelivered(id)
    /\ JobsOf(id)[1].trackInfo = 1
    /\ JobsOf(id)[2].trackInfo = 3

\* C12: a monitor invocation in which carrier.track raises enqueues no
\* delivery job, leaves lastChecksum and the active flag as they were,
\* records the tracking error in lastError, sets lastCheckedAt to now and
\* returns normally, so that the queue schedules no retry; it adds no
\* entry to the tracking cache.
C12_CarrierErrorIsolated ==
  [][/\ (mon.pc = "idle" /\ mon'.pc = "tracking")
        => /\ deliveryJobs' = deliveryJobs
           /\ webhooks' = webhooks
           /\ CacheIndex(cache', MonitorKey') = 0
     /\ (mon.pc = "tracking" /\ mon'.pc = "idle")
        => /\ deliveryJobs' = deliveryJobs
           /\ webhooks'[mon.id].lastChecksum = webhooks[mon.id].lastChecksum
           /\ webhooks'[mon.id].active = webhooks[mon.id].active
           /\ webhooks'[mon.id].lastError = TrackingApiError
           /\ webhooks'[mon.id].lastCheckedAt = now
           /\ monitorJobs' = monitorJobs
           /\ cache' = cache
           /\ CacheIndex(cache', MonitorKey) = 0]_vars

\* A carrier error on the tick after one that stored a checksum.
C12_Witness ==
  \E id \in DOMAIN webhooks :
    /\ webhooks[id].lastError = TrackingApiError
    /\ webhooks[id].lastCheckedAt = 2 * TrackingMonitorInterval
    /\ webhooks[id].lastChecksum # NoChecksum
    /\ webhooks[id].active
    /\ mon.pc = "idle"
    /\ \A j \in monitorJobs : j.attemptsMade = 0

\* The step is the end of a delivery handler that ran the last attempt of
\* a job of registration id and failed.
DeliveryExhausted(id) ==
  /\ del.pc = "posting" /\ del'.pc = "idle"
  /\ deliveryJobs[del.job].webhookRegistrationId = id
  /\ AttemptNumber(deliveryJobs[del.job]) >= MAX_RETRY_ATTEMPTS
  /\ ~logs'[del.job][Len(logs'[del.job])].success

\* The step is the monitor handler of registration id finding it expired.
MonitorFoundExpired(id) ==
  /\ \E j \in monitorJobs : j.webhookRegistrationId = id /\ MonitorStart(j)
  /\ now > webhooks[id].expirationTime

\* The step is the cleanup worker deactivating the expired registration id.
CleanupFoundExpired(id) == Cleanup /\ webhooks[id].expirationTime < now

\* C13: a registration's active flag goes from true to false only in an
\* explicit Deactivate call, in the monitor's expiry check, in the cleanup
\* worker when the registration has expired, or at the end of a delivery
\* handler that failed on the last attempt.  No other step (carrier error,
\* monitor job failure, delivery failure on an earlier attempt) clears it,
\* and it is never set back to true.
C13_DeactivationCauses ==
  [][\A id \in DOMAIN webhooks :
       /\ ~webhooks[id].active => ~webhooks'[id].active
       /\ (webhooks[id].active /\ ~webhooks'[id].active)
          => \/ Deactivate(id)
             \/ MonitorFoundExpired(id)
             \/ CleanupFoundExpired(id)
             \/ DeliveryExhausted(id)]_vars

\* A registration made inactive by an exhausted delivery job, after carrier
\* and enqueue errors were possible.
C13_Witness ==
  \E id \in DOMAIN webhooks :
    /\ ~webhooks[id].active
    /\ webhooks[id].lastError = FailedAfterError(4, HttpMessage(500))
    /\ now <= webhooks[id].expirationTime

\* C14: a delivery handler starts only for a job whose registration is
\* active: once a registration is inactive no POST is sent and no delivery
\* log is appended for it, jobs queued or waiting for a retry included.
C14_NoDeliveryWhenInactive ==
  [][\A j \in DOMAIN deliveryJobs :
       (deliveryJobs[j].state \in {"waiting", "delayed"}
        /\ deliveryJobs'[j].state = "active")
       => Registration(j).active]_vars

----------------------------------------------------------------------------
(* The cleanup worker with the monitor, the cleanup cron firing fairly. *)

NextCleanup ==
  \/ \E c \in Carriers, tn \in TrackingNumbers, l \in Lifetimes : Register(c, tn, l)
  \/ \E j \in monitorJobs : MonitorStart(j)
  \/ MonitorTrackOk
  \/ MonitorTrackFails
  \/ MonitorNoChange
  \/ MonitorEnqueue
  \/ MonitorEnqueueFails
  \/ MonitorWriteChecksum
  \/ Cleanup
  \/ \E tn \in TrackingNumbers, ti \in TrackInfoIds : CarrierChange(tn, ti)
  \/ Tick

SpecCleanup == Init /\ [][NextCleanup]_vars /\ WF_vars(Cleanup)

Expired(id) ==
  id \in DOMAIN webhooks /\ webhooks[id].expirationTime < now

Inactive(id) ==
  id \in DOMAIN webhooks /\ ~webhooks[id].active

----------------------------------------------------------------------------
(* The tracking cache on its own: a cache constructed with a small maxSize
   and the default TTL, its five public methods called in any order while
   the clock advances in steps of half the TTL. *)

CacheCarriers == {"kr.cjlogistics", "kr.epost"}
CacheTrackingNumbers == {"1", "2"}
CacheKeys == {buildKey(c, tn) : c \in CacheCarriers, tn \in CacheTrackingNumbers}
CacheClockStep == CacheTtl \div 2

CacheSet(carrierId, trackingNumber, data) ==
  /\ cache' = cacheSetBounded(cache, SmallMaxSize,
                              buildKey(carrierId, trackingNumber), data, now)
  /\ fill' = FillAfterSet(fill, SmallMaxSize, buildKey(carrierId, trackingNumber))
  /\ UNCHANGED <<now, webhooks, monitorJobs, mon, deliveryJobs, del, logs,
                 carrierData, observed, tracked, inc, reply, sums, service>>

CacheGet(carrierId, trackingNumber) ==
  /\ cache' = cacheGet(cache, buildKey(carrierId, trackingNumber), now)[1]
  /\ fill' = NotFilling
  /\ UNCHANGED <<now, webhooks, monitorJobs, mon, deliveryJobs, del, logs,
                 carrierData, observed, tracked, inc, reply, sums, service>>

CacheInvalidate(carrierId, trackingNumber) ==
  /\ cache' = cacheInvalidate(cache, buildKey(carrierId, trackingNumber))
  /\ fill' = NotFilling
  /\ UNCHANGED <<now, webhooks, monitorJobs, mon, deliveryJobs, del, logs,
                 carrierData, observed, tracked, inc, reply, sums, service>>

CacheClear ==
  /\ cache' = cacheClear(cache)
  /\ fill' = Filling(<<>>)
  /\ UNCHANGED <<now, webhooks, monitorJobs, mon, deliveryJobs, del, logs,
                 carrierData, observed, tracked, inc, reply, sums, service>>

CacheCleanup ==
  /\ cache' = cacheCleanup(cache, now)
  /\ fill' = NotFilling
  /\ UNCHANGED <<now, webhooks, monitorJobs, mon, deliveryJobs, del, logs,
                 carrierData, observed, tracked, inc, reply, sums, service>>

CacheTime ==
  /\ now < MaxCacheSteps * CacheClockStep
  /\ now' = now + CacheClockStep
  /\ UNCHANGED <<webhooks, monitorJobs, mon, deliveryJobs, del, logs, cache,
                 carrierData, observed, fill, tracked, inc, reply, sums, service>>

NextCache ==
  \/ \E c \in CacheCarriers, tn \in CacheTrackingNumbers, d \in TrackInfoIds :
       CacheSet(c, tn, d)
  \/ \E c \in CacheCarriers, tn \in CacheTrackingNumbers : CacheGet(c, tn)
  \/ \E c \in CacheCarriers, tn \in CacheTrackingNumbers : CacheInvalidate(c, tn)
  \/ CacheClear
  \/ CacheCleanup
  \/ CacheTime

SpecCache == Init /\ [][NextCache]_vars

----------------------------------------------------------------------------
(* Properties of the tracking cache, checked under SpecCache *)

SetOf(k) ==
  \E c \in CacheCarriers, tn \in CacheTrackingNumbers, d \in TrackInfoIds :
    buildKey(c, tn) = k /\ CacheSet(c, tn, d)

SetOfOther(k) ==
  \E c \in CacheCarriers, tn \in CacheTrackingNumbers, d \in TrackInfoIds :
    buildKey(c, tn) # k /\ CacheSet(c, tn, d)

InvalidateOf(k) ==
  \E c \in CacheCarriers, tn \in CacheTrackingNumbers :
    buildKey(c, tn) = k /\ CacheInvalidate(c, tn)

\* The entry of k is the one a set() on a full cache evicts.
IsOldest(k) ==
  LET i == CacheIndex(cache, k)
  IN \A m \in 1..Len(cache) :
       \/ cache[m].timestamp > cache[i].timestamp
       \/ cache[m].timestamp = cache[i].timestamp /\ m >= i

\* The step is a set() on another key that evicts the entry of k.
EvictedBySet(k) ==
  SetOfOther(k) /\ Len(cache) >= SmallMaxSize /\ IsOldest(k)

\* get(k) in this state returns the data of k's entry while its age is at
\* most the TTL, and afterwards returns null and removes the entry.
GetWithinTtl(k) ==
  LET i == CacheIndex(cache, k)
  IN cacheGet(cache, k, now) =
       IF now - cache[i].timestamp <= CacheTtl
       THEN <<cache, cache[i].data>>
       ELSE <<RemoveAt(cache, i), 0>>

\* The entry of k is after the step what it was before.
EntryKept(k) ==
  /\ CacheIndex(cache', k) # 0
  /\ cache'[CacheIndex(cache', k)] = cache[CacheIndex(cache, k)]

\* C16 as stated: an entry set for k stays, and get(k) returns its value
\* while its age is at most the TTL, whatever get, set on other keys and
\* cleanup calls come in between; only invalidate(k), clear and a new
\* set(k) end it.
C16_EntryKeptUntilTtl ==
  [][\A k \in CacheKeys :
       CacheIndex(cache, k) # 0 =>
         /\ GetWithinTtl(k)
         /\ (/\ now' - cache[CacheIndex(cache, k)].timestamp <= CacheTtl
             /\ ~InvalidateOf(k) /\ ~CacheClear /\ ~SetOf(k))
            => EntryKept(k)]_vars

\* C16: an entry set for k stays, and get(k) returns its value while its
\* age is at most the TTL, across get, cleanup, the passing of time and
\* set on other keys, unless a set on another key finds the cache holding
\* maxSize entries with k's entry the oldest: that set evicts k.  Once the
\* age exceeds the TTL, get(k) returns null and removes the entry.
C16_EntryKeptUntilTtlOrEvicted ==
  [][\A k \in CacheKeys :
       CacheIndex(cache, k) # 0 =>
         /\ GetWithinTtl(k)
         /\ (/\ now' - cache[CacheIndex(cache, k)].timestamp <= CacheTtl
             /\ ~InvalidateOf(k) /\ ~CacheClear /\ ~SetOf(k)
             /\ ~EvictedBySet(k))
            => EntryKept(k)
         /\ EvictedBySet(k) => CacheIndex(cache', k) = 0]_vars

\* An entry whose age is exactly the TTL, kept across a set on another key.
C16_Witness ==
  \E k \in CacheKeys :
    /\ CacheIndex(cache, k) = 1
    /\ now - cache[1].timestamp = CacheTtl
    /\ Len(cache) = 2
    /\ cache[2].timestamp = now

\* C17: after maxSize + 1 distinct keys have been set into an empty cache
\* the cache holds exactly maxSize entries: every key but the first one
\* set, which has the earliest timestamp.
C17_FillEvictsFirst ==
  (fill.filling /\ Len(fill.keys) = SmallMaxSize + 1) =>
    /\ Len(cache) = SmallMaxSize
    /\ CacheIndex(cache, fill.keys[1]) = 0
    /\ \A n \in 2..(SmallMaxSize + 1) : CacheIndex(cache, fill.keys[n]) # 0
    /\ \A m \in 1..Len(cache) : \E n \in 2..(SmallMaxSize + 1) :
         cache[m].key = fill.keys[n]

C17_Witness ==
  /\ fill.filling
  /\ Len(fill.keys) = SmallMaxSize + 1
  /\ \A m \in 1..(Len(cache) - 1) : cache[m].timestamp < cache[m + 1].timestamp
  /\ cache[1].timestamp > 0

----------------------------------------------------------------------------
(* Two registrations that watch the same parcel, their monitor instances
   handled one after the other by the tracking-monitor processor. *)

InitCoalesce ==
  /\ now = 0
  /\ webhooks = <<NewWebhook("kr.cjlogistics", "100000001",
                             (MaxTicks + 1) * TrackingMonitorInterval),
                  NewWebhook("kr.cjlogistics", "100000001",
                             (MaxTicks + 1) * TrackingMonitorInterval)>>
  /\ monitorJobs = addRepeatingTrackingMonitorJob(
                      addRepeatingTrackingMonitorJob({}, 1, 0), 2, 0)
  /\ mon = IdleMonitor
  /\ deliveryJobs = <<>>
  /\ del = IdleDelivery
  /\ logs = <<>>
  /\ cache = <<>>
  /\ carrierData = [tn \in TrackingNumbers |-> 1]
  /\ observed = <<{}, {}>>
  /\ fill = Filling(<<>>)
  /\ tracked = <<>>
  /\ inc = NoCalls
  /\ reply = Registered(2)
  /\ sums = <<>>
  /\ service = ServiceOpen

NextCoalesce ==
  \/ \E j \in monitorJobs : MonitorStart(j)
  \/ MonitorTrackOk
  \/ MonitorTrackFails
  \/ MonitorNoChange
  \/ MonitorEnqueue
  \/ MonitorEnqueueFails
  \/ MonitorWriteChecksum
  \/ Cleanup
  \/ \E tn \in TrackingNumbers, ti \in TrackInfoIds : CarrierChange(tn, ti)
  \/ Tick

SpecCoalesce == InitCoalesce /\ [][NextCoalesce]_vars

\* The calls of this window for the key, in call order.
CallsFor(key) == SelectSeq(tracked, LAMBDA call : call.key = key)

SharedKey == buildKey("kr.cjlogistics", "100000001")

----------------------------------------------------------------------------
(* WebhookRepository.incrementDeliveryAttempts called by several workers for
   one registration.  Each call is a read (findWebhookById) followed by a
   write (updateWebhook) of the value read plus one; between the two awaits
   the other calls run. *)

Reading == [pc |-> "reading", read |-> 0]
Writing(n) == [pc |-> "writing", read |-> n]
Done(n) == [pc |-> "done", read |-> n]

InitIncrement ==
  /\ now = 0
  /\ webhooks = <<NewWebhook("kr.cjlogistics", "100000001",
                             (MaxTicks + 1) * TrackingMonitorInterval)>>
  /\ monitorJobs = addRepeatingTrackingMonitorJob({}, 1, 0)
  /\ mon = IdleMonitor
  /\ deliveryJobs = <<>>
  /\ del = IdleDelivery
  /\ logs = << <<>> >>
  /\ cache = <<>>
  /\ carrierData = [tn \in TrackingNumbers |-> 1]
  /\ observed = <<{}>>
  /\ fill = Filling(<<>>)
  /\ tracked = <<>>
  /\ inc = NoCalls
  /\ reply = Registered(1)
  /\ sums = <<>>
  /\ service = ServiceOpen

\* A worker calls incrementDeliveryAttempts(1).
IncrementCall ==
  /\ Len(inc) < MaxCallers
  /\ inc' = Append(inc, Reading)
  /\ UNCHANGED <<now, webhooks, monitorJobs, mon, deliveryJobs, del, logs, cache,
                 carrierData, observed, fill, tracked, reply, sums, service>>

\* const webhook = await this.findWebhookById(id)
IncrementRead(w) ==
  /\ inc[w].pc = "reading"
  /\ inc' = [inc EXCEPT ![w] = Writing(webhooks[1].deliveryAttempts)]
  /\ UNCHANGED <<now, webhooks, monitorJobs, mon, deliveryJobs, del, logs, cache,
                 carrierData, observed, fill, tracked, reply, sums, service>>

\* return await this.updateWebhook(id, {deliveryAttempts: webhook.deliveryAttempts + 1, ...})
IncrementWrite(w) ==
  /\ inc[w].pc = "writing"
  /\ webhooks' = updateWebhook(webhooks, 1,
                     [deliveryAttempts |-> Def(inc[w].read + 1),
                      lastDeliveryAt |-> Def(now)])
  /\ inc' = [inc EXCEPT ![w] = Done(inc[w].read)]
  /\ UNCHANGED <<now, monitorJobs, mon, deliveryJobs, del, logs, cache,
                 carrierData, observed, fill, tracked, reply, sums, service>>

IncrementTime ==
  /\ now < MaxCallerClock
  /\ now' = now + 1
  /\ UNCHANGED <<webhooks, monitorJobs, mon, deliveryJobs, del, logs, cache,
                 carrierData, observed, fill, tracked, inc, reply, sums, service>>

NextIncrement ==
  \/ IncrementCall
  \/ \E w \in DOMAIN inc : IncrementRead(w)
  \/ \E w \in DOMAIN inc : IncrementWrite(w)
  \/ IncrementTime

SpecIncrement == InitIncrement /\ [][NextIncrement]_vars

AllDone == \A w \in DOMAIN inc : inc[w].pc = "done"

\* C19: when all the concurrent incrementDeliveryAttempts calls for one
\* registration have completed, deliveryAttempts has grown by the number of
\* calls.
C19_NoLostIncrement ==
  AllDone => webhooks[1].deliveryAttempts = Len(inc)

\* Two calls completed, both having read the same stored value.
C19_LostIncrement ==
  /\ Len(inc) = 2
  /\ AllDone
  /\ inc[1].read = 0
  /\ inc[2].read = 0
  /\ webhooks[1].deliveryAttempts = 1

----------------------------------------------------------------------------
(* Registration input validation (WebhookValidator) *)

MAX_EXPIRATION_DAYS == 30
DaySeconds == 86400
ALLOWED_PROTOCOLS == {"https:", "http:"}

\* A callbackUrl string as new URL() reads it: its protocol and the labels
\* of its hostname.  A string new URL() rejects (a relative reference, an
\* empty string) has no protocol.
AbsoluteUrl(protocol, hostname) == [protocol |-> protocol, hostname |-> hostname]
NotAUrl == [protocol |-> "", hostname |-> <<>>]
UrlParses(url) == url.protocol # ""

\* hostname.startsWith(prefix + "."), the prefix given as labels.
HostStartsWith(hostname, prefix) ==
  /\ Len(hostname) > Len(prefix)
  /\ \A k \in DOMAIN prefix : hostname[k] = prefix[k]

\* Variant: the 10. range is not tested.
PrivateHostWithout10(hostname) ==
  \/ hostname = <<"localhost">>
  \/ hostname = <<"127", "0", "0", "1">>
  \/ HostStartsWith(hostname, <<"192", "168">>)
  \/ HostStartsWith(hostname, <<"172">>)

PrivateHost(hostname) ==
  \/ hostname = <<"localhost">>
  \/ hostname = <<"127", "0", "0", "1">>
  \/ HostStartsWith(hostname, <<"192", "168">>)
  \/ HostStartsWith(hostname, <<"10">>)
  \/ HostStartsWith(hostname, <<"172">>)

\* Variant: a time exactly MAX_EXPIRATION_DAYS ahead is refused.
SchemaAcceptsBelowMax(input, t) ==
  /\ input.carrierId # ""
  /\ input.trackingNumber # ""
  /\ UrlParses(input.callbackUrl)
  /\ input.expirationTime - t > 0
  /\ input.expirationTime - t < MAX_EXPIRATION_DAYS * DaySeconds

\* RegisterWebhookInputSchema.safeParse(input).success at time t.  The
\* difference in days is taken with days of 24 hours (a server clock
\* without daylight-saving shifts).
SchemaAccepts(input, t) ==
  /\ input.carrierId # ""
  /\ input.trackingNumber # ""
  /\ UrlParses(input.callbackUrl)
  /\ input.expirationTime - t > 0
  /\ input.expirationTime - t <= MAX_EXPIRATION_DAYS * DaySeconds

\* TRUE when validateRegistrationInput returns the data, FALSE when it
\* throws WebhookValidationError.
validateRegistrationInput(input, t, production) ==
  /\ SchemaAccepts(input, t)
  /\ input.callbackUrl.protocol \in ALLOWED_PROTOCOLS
  /\ ~(production /\ PrivateHost(input.callbackUrl.hostname))

\* The messages of the schema's failing fields, in the order of the fields.
SchemaMessages(input, t) ==
  (IF input.carrierId = "" THEN <<"Carrier ID is required">> ELSE <<>>)
    \o (IF input.trackingNumber = "" THEN <<"Tracking number is required">> ELSE <<>>)
    \o (IF ~UrlParses(input.callbackUrl)
        THEN <<"Callback URL must be a valid URL">> ELSE <<>>)
    \o (IF ~(/\ input.expirationTime - t > 0
             /\ input.expirationTime - t <= MAX_EXPIRATION_DAYS * DaySeconds)
        THEN <<"Expiration time must be between now and 30 days in the future">>
        ELSE <<>>)

\* The message of the WebhookValidationError validateRegistrationInput
\* throws for an input it rejects.
registrationInputMessage(input, t, production) ==
  IF ~SchemaAccepts(input, t)
  THEN <<"Validation failed">> \o SchemaMessages(input, t)
  ELSE IF input.callbackUrl.protocol \notin ALLOWED_PROTOCOLS
  THEN <<"Callback URL protocol must be HTTP or HTTPS", input.callbackUrl.protocol>>
  ELSE <<"Callback URL cannot point to localhost or private IP addresses">>

\* The message of the WebhookValidationError validateCarrierId throws.
carrierIdMessage(carrierId) == <<"Invalid carrier ID", carrierId>>

\* Variant: every carrier id passes.
validateCarrierIdAny(carrierId, validCarrierIds) == carrierId = carrierId

\* TRUE when validateCarrierId returns, FALSE when it throws
\* WebhookValidationError.
validateCarrierId(carrierId, validCarrierIds) == carrierId \in validCarrierIds

InputCarrierIds == Carriers \cup {"", "xx.unknown"}
InputTrackingNumbers == TrackingNumbers \cup {""}
InputUrls ==
  {AbsoluteUrl("https:", <<"example", "com">>),
   AbsoluteUrl("http:", <<"localhost">>),
   AbsoluteUrl("http:", <<"127", "0", "0", "1">>),
   AbsoluteUrl("http:", <<"10", "2", "3", "4">>),
   AbsoluteUrl("http:", <<"172", "16", "0", "1">>),
   AbsoluteUrl("http:", <<"192", "168", "0", "1">>),
   AbsoluteUrl("ftp:", <<"example", "com">>),
   NotAUrl}
InputLifetimes ==
  Lifetimes \cup {-1, 0, MAX_EXPIRATION_DAYS * DaySeconds, MAX_EXPIRATION_DAYS * DaySeconds + 1}

\* An input the validation accepts outside production.
BaseInput ==
  [carrierId |-> "kr.cjlogistics", trackingNumber |-> "100000001",
   callbackUrl |-> AbsoluteUrl("https:", <<"example", "com">>),
   expirationTime |-> now + TrackingMonitorInterval]

\* The inputs tried: the base input with one field replaced, and an input
\* with every field wrong.
RegisterInputs ==
  {[BaseInput EXCEPT !.carrierId = c] : c \in InputCarrierIds}
    \cup {[BaseInput EXCEPT !.trackingNumber = tn] : tn \in InputTrackingNumbers}
    \cup {[BaseInput EXCEPT !.callbackUrl = url] : url \in InputUrls}
    \cup {[BaseInput EXCEPT !.expirationTime = now + l] : l \in InputLifetimes}
    \cup {[carrierId |-> "", trackingNumber |-> "", callbackUrl |-> NotAUrl,
           expirationTime |-> now]}

\* WebhookService.registerWebhook(input)
RegisterCall(input, production) ==
  IF /\ validateRegistrationInput(input, now, production)
     /\ validateCarrierId(input.carrierId, Carriers)
  THEN Register(input.carrierId, input.trackingNumber, input.expirationTime - now)
  ELSE /\ reply' = WebhookValidationError(
                    IF validateRegistrationInput(input, now, production)
                    THEN carrierIdMessage(input.carrierId)
                    ELSE registrationInputMessage(input, now, production))
       /\ UNCHANGED <<now, webhooks, monitorJobs, mon, deliveryJobs, del, logs,
                      cache, carrierData, observed, fill, tracked, inc, sums, service>>

\* The service facade's calls and the clock; the workers are left out.
NextRegister ==
  \/ \E input \in RegisterInputs, production \in BOOLEAN : RegisterCall(input, production)
  \/ \E id \in DOMAIN webhooks : Deactivate(id)
  \/ Tick

SpecRegister == Init /\ [][NextRegister]_vars

\* The inputs the validation rules reject: an empty carrierId or
\* trackingNumber, a callbackUrl that is not an absolute http/https URL, an
\* expirationTime outside (now, now + 30 days], a carrierId the registry
\* does not know.
FailsValidation(input) ==
  \/ input.carrierId = ""
  \/ input.trackingNumber = ""
  \/ input.callbackUrl.protocol \notin {"http:", "https:"}
  \/ ~(now < input.expirationTime /\ input.expirationTime <= now + 30 * DaySeconds)
  \/ input.carrierId \notin Carriers

\* C20: a registerWebhook call whose input fails validation raises
\* WebhookValidationError and changes neither the registration store nor the
\* monitor queue.
C20_RejectedRegisterChangesNothing ==
  [][\A input \in RegisterInputs, production \in BOOLEAN :
       (RegisterCall(input, production) /\ FailsValidation(input))
         => /\ IsValidationError(reply')
            /\ webhooks' = webhooks
            /\ monitorJobs' = monitorJobs]_vars

\* A call was rejected while the store holds one registration and its job.
C20_Witness ==
  /\ IsValidationError(reply)
  /\ Len(webhooks) = 1
  /\ Cardinality(monitorJobs) = 1

\* The callback URLs with a host the production rule names.
PrivateUrls ==
  {AbsoluteUrl("http:", <<"localhost">>),
   AbsoluteUrl("http:", <<"127", "0", "0", "1">>),
   AbsoluteUrl("http:", <<"10", "2", "3", "4">>),
   AbsoluteUrl("http:", <<"172", "16", "0", "1">>),
   AbsoluteUrl("http:", <<"192", "168", "0", "1">>)}

PrivateHostError ==
  WebhookValidationError(
    <<"Callback URL cannot point to localhost or private IP addresses">>)

\* C21: in production registerWebhook rejects a callback URL whose host is
\* localhost, 127.0.0.1 or starts with 10., 172. or 192.168. with a
\* WebhookValidationError and accepts https://example.com; outside
\* production it accepts the same private hosts.
C21_PrivateHostsRejectedInProduction ==
  [][/\ \A url \in PrivateUrls :
          /\ RegisterCall([BaseInput EXCEPT !.callbackUrl = url], TRUE)
               => (reply' = PrivateHostError /\ webhooks' = webhooks)
          /\ RegisterCall([BaseInput EXCEPT !.callbackUrl = url], FALSE)
               => (reply' = Registered(Len(webhooks) + 1)
                   /\ Len(webhooks') = Len(webhooks) + 1)
     /\ RegisterCall(BaseInput, TRUE)
          => (reply' = Registered(Len(webhooks) + 1)
              /\ Len(webhooks') = Len(webhooks) + 1)]_vars

\* A production call with a private host was rejected, nothing stored.
C21_Witness ==
  /\ reply = PrivateHostError
  /\ webhooks = <<>>
  /\ monitorJobs = {}

----------------------------------------------------------------------------

\* The monitor jobs waiting in the queue for a registration.
MonitorJobsOf(id) == {j \in monitorJobs : j.webhookRegistrationId = id}

\* C22: deactivateWebhook(id) for an existing registration leaves it
\* inactive with no monitor job for it in the tracking-monitor queue, and a
\* second call changes nothing more.
C22_DeactivateIdempotent ==
  [][\A id \in DOMAIN webhooks :
       Deactivate(id)
         => /\ ~webhooks'[id].active
            /\ MonitorJobsOf(id)' = {}
            /\ deactivateWebhook(webhooks', id) = webhooks'
            /\ removeTrackingMonitorJob(monitorJobs', id) = monitorJobs']_vars

\* After deactivateWebhook the repeat instance is still waiting.
C22_ScheduleKept ==
  /\ Len(webhooks) = 1
  /\ ~webhooks[1].active
  /\ MonitorJobsOf(1) # {}
  /\ mon.pc = "idle"

----------------------------------------------------------------------------

ExpirationError ==
  WebhookValidationError(
    <<"Validation failed",
      "Expiration time must be between now and 30 days in the future">>)

\* C23: registerWebhook accepts an expirationTime exactly when
\* now < expirationTime <= now + 30 days: a time equal to now or before it
\* and a time more than 30 days ahead are rejected, a time exactly 30 days
\* ahead is stored.
C23_ExpirationRange ==
  [][\A l \in InputLifetimes, production \in BOOLEAN :
       RegisterCall([BaseInput EXCEPT !.expirationTime = now + l], production)
         => IF 0 < l /\ l <= 30 * 86400
            THEN /\ reply' = Registered(Len(webhooks) + 1)
                 /\ Len(webhooks') = Len(webhooks) + 1
                 /\ webhooks'[Len(webhooks')].expirationTime = now + l
            ELSE /\ reply' = ExpirationError
                 /\ webhooks' = webhooks]_vars

\* A registration that expires exactly 30 days after the call was stored.
C23_Witness ==
  /\ reply = Registered(1)
  /\ Len(webhooks) = 1
  /\ webhooks[1].expirationTime = now + 30 * 86400

----------------------------------------------------------------------------
(* The GraphQL mutation registerTrackWebhook and the server's formatError *)

GraphQLError(message, code) == [kind |-> "error", message |-> message, code |-> code]
GraphQLData(id) == [kind |-> "data", id |-> id]

\* What the resolver returns or throws for what registerWebhook returned
\* or threw.
registerTrackWebhookResolver(r) ==
  IF r.kind = "id" THEN GraphQLData(r.id)
  ELSE IF IsValidationError(r) THEN GraphQLError(r.message, "BAD_REQUEST")
  ELSE GraphQLError(<<"Failed to register webhook">>, "INTERNAL")

ApolloBadRequestCodes ==
  {"GRAPHQL_PARSE_FAILED", "GRAPHQL_VALIDATION_FAILED", "PERSISTED_QUERY_NOT_FOUND",
   "PERSISTED_QUERY_NOT_SUPPORTED", "BAD_USER_INPUT", "OPERATION_RESOLUTION_FAILURE"}

\* The switch of formatError: the cases "INTERNAL", "BAD_REQUEST",
\* "NOT_FOUND" and INTERNAL_SERVER_ERROR share one body.
formatCode(code) ==
  IF code \in {"INTERNAL", "BAD_REQUEST", "NOT_FOUND", "INTERNAL_SERVER_ERROR"}
  THEN "INTERNAL"
  ELSE IF code \in ApolloBadRequestCodes THEN "BAD_REQUEST"
  ELSE "INTERNAL"

formatError(e) ==
  [kind |-> "error", code |-> formatCode(e.code),
   message |-> IF formatCode(e.code) = "INTERNAL" THEN <<"Internal error">>
               ELSE e.message]

\* What the GraphQL caller receives for the last registerWebhook call.
GraphQLResponse ==
  IF registerTrackWebhookResolver(reply).kind = "data"
  THEN registerTrackWebhookResolver(reply)
  ELSE formatError(registerTrackWebhookResolver(reply))

\* C24: a validation failure of registerWebhook reaches the GraphQL caller
\* with code BAD_REQUEST and the message of the validation error.
C24_ValidationErrorSurfaced ==
  IsValidationError(reply)
    => /\ GraphQLResponse.code = "BAD_REQUEST"
       /\ GraphQLResponse.message = reply.message

\* A validation failure answered as an internal error.
C24_AnsweredInternal ==
  /\ IsValidationError(reply)
  /\ GraphQLResponse = GraphQLError(<<"Internal error">>, "INTERNAL")

----------------------------------------------------------------------------
(* computeChecksum on TrackInfo values with nested objects *)

StatusInTransit == Obj(<< <<1, Str("IN_TRANSIT")>>, <<3, Str("In transit")>> >>)
StatusInTransitReordered == Obj(<< <<3, Str("In transit")>>, <<1, Str("IN_TRANSIT")>> >>)
StatusDelivered == Obj(<< <<1, Str("DELIVERED")>>, <<3, Str("Delivered")>> >>)

ChecksumEvents ==
  {Obj(<< <<4, StatusInTransit>>, <<5, Str("t1")>> >>),
   Obj(<< <<5, Str("t1")>>, <<4, StatusInTransit>> >>),
   Obj(<< <<4, StatusInTransitReordered>>, <<5, Str("t1")>> >>),
   Obj(<< <<5, Str("t1")>>, <<4, StatusInTransitReordered>> >>),
   Obj(<< <<4, StatusDelivered>>, <<5, Str("t2")>> >>),
   Obj(<< <<5, Str("t2")>>, <<4, Arr(<<StatusDelivered, StatusInTransit>>)>> >>),
   Obj(<< <<4, Arr(<<StatusDelivered, StatusInTransitReordered>>)>>, <<5, Str("t2")>> >>),
   Obj(<< <<4, Arr(<<StatusInTransit, StatusDelivered>>)>>, <<5, Str("t2")>> >>)}

ChecksumInputs ==
  {[events |-> es, sender |-> sender] :
     es \in UNION {[1..n -> ChecksumEvents] : n \in 0..MaxEvents},
     sender \in {"s1", "s2"}}

ComputeChecksum(trackInfo) ==
  /\ Len(sums) < MaxChecksums
  /\ sums' = Append(sums, [trackInfo |-> trackInfo,
                           checksum |-> computeChecksum(trackInfo)])
  /\ UNCHANGED <<now, webhooks, monitorJobs, mon, deliveryJobs, del, logs, cache,
                 carrierData, observed, fill, tracked, inc, reply, service>>

NextChecksum == \E trackInfo \in ChecksumInputs : ComputeChecksum(trackInfo)

SpecChecksum == Init /\ [][NextChecksum]_vars

\* The value stored under a key of an object.
ValueAt(object, key) ==
  object.v[CHOOSE k \in DOMAIN object.v : object.v[k][1] = key][2]

KeysOf(object) == {object.v[k][1] : k \in DOMAIN object.v}

\* Two JSON values that differ at most in the order of object keys, at any
\* depth.
RECURSIVE SameUpToKeyOrder(_, _)
SameUpToKeyOrder(a, b) ==
  /\ a.type = b.type
  /\ IF a.type = "object"
     THEN /\ KeysOf(a) = KeysOf(b)
          /\ \A key \in KeysOf(a) : SameUpToKeyOrder(ValueAt(a, key), ValueAt(b, key))
     ELSE IF a.type = "array"
     THEN /\ Len(a.v) = Len(b.v)
          /\ \A k \in DOMAIN a.v : SameUpToKeyOrder(a.v[k][2], b.v[k][2])
     ELSE a.text = b.text

----------------------------------------------------------------------------

\* A monitor invocation for job j that touches nothing but the monitor queue.
MonitorStartOnlyQueue(j) ==
  /\ MonitorStart(j)
  /\ webhooks' = webhooks
  /\ cache' = cache
  /\ tracked' = tracked
  /\ deliveryJobs' = deliveryJobs
  /\ mon' = IdleMonitor

\* C26: a monitor invocation that finds its registration inactive removes
\* the repeating schedule of that registration and does nothing else: no
\* cache access, no carrier call, no delivery job, no write to the row, and
\* it returns without raising.
C26_InactiveMonitorOnlyUnschedules ==
  [][\A j \in monitorJobs :
       (MonitorStart(j) /\ ~webhooks[j.webhookRegistrationId].active)
         => /\ MonitorStartOnlyQueue(j)
            /\ MonitorJobsOf(j.webhookRegistrationId)' = {}]_vars

\* A monitor invocation found the registration inactive and the schedule
\* went on: the next instance waits in the queue.
C26_ScheduleGoesOn ==
  /\ Len(webhooks) = 1
  /\ ~webhooks[1].active
  /\ now = 2 * TrackingMonitorInterval
  /\ \E j \in MonitorJobsOf(1) : j.runAt = 3 * TrackingMonitorInterval

----------------------------------------------------------------------------

\* C27: a monitor invocation for an active registration that runs at
\* now >= expirationTime, now = expirationTime included, deactivates the
\* registration, removes its repeating schedule and returns; it reads
\* neither cache nor carrier and enqueues no delivery job.
C27_ExpiredAtOrAfterDeadline ==
  [][\A j \in monitorJobs :
       (/\ MonitorStart(j)
        /\ webhooks[j.webhookRegistrationId].active
        /\ now >= webhooks[j.webhookRegistrationId].expirationTime)
         => /\ ~webhooks'[j.webhookRegistrationId].active
            /\ MonitorJobsOf(j.webhookRegistrationId)' = {}
            /\ mon' = IdleMonitor
            /\ cache' = cache
            /\ tracked' = tracked
            /\ deliveryJobs' = deliveryJobs]_vars

\* A monitor invocation run at now = expirationTime polled the carrier and
\* a delivery job was enqueued for the registration, still active.
C27_PolledAtDeadline ==
  /\ Len(webhooks) = 1
  /\ now = webhooks[1].expirationTime
  /\ webhooks[1].active
  /\ webhooks[1].lastCheckedAt = now
  /\ Len(JobsOf(1)) = 1

----------------------------------------------------------------------------

\* C28: no delivery job is enqueued for a registration that is inactive,
\* also when the deactivation happened while the monitor invocation that
\* enqueues was running.
C28_NoEnqueueWhenInactive ==
  [][\A id \in DOMAIN webhooks :
       Len(JobsOf(id)') > Len(JobsOf(id)) => webhooks[id].active]_vars

\* The running monitor invocation loaded the registration while it was
\* active and has enqueued a delivery job after the deactivation.
C28_EnqueuedAfterDeactivate ==
  /\ mon.pc = "enqueued"
  /\ ~webhooks[mon.id].active
  /\ Len(JobsOf(mon.id)) = 1
  /\ webhooks[mon.id].lastChecksum = NoChecksum

----------------------------------------------------------------------------

\* C29: a monitor tick whose computed checksum equals the stored, non-empty
\* lastChecksum writes lastCheckedAt and nothing else: no delivery job is
\* enqueued and lastChecksum, lastError, active, deliveryAttempts and
\* lastDeliveryAt keep their values.
C29_NoChangeWritesLastCheckedAtOnly ==
  [][(/\ mon.pc = "tracked"
      /\ mon' # mon
      /\ webhooks[mon.id].lastChecksum # NoChecksum
      /\ webhooks[mon.id].lastChecksum = Computed)
       => /\ webhooks' = [webhooks EXCEPT ![mon.id].lastCheckedAt = now]
          /\ deliveryJobs' = deliveryJobs
          /\ mon' = IdleMonitor]_vars

\* The third tick found the checksum of the second: a row with an error
\* from the first tick, checked now, with the one job of the second tick.
C29_Witness ==
  /\ now = 3 * TrackingMonitorInterval
  /\ mon.pc = "idle"
  /\ Len(webhooks) = 1
  /\ webhooks[1].lastCheckedAt = now
  /\ webhooks[1].lastError = TrackingApiError
  /\ webhooks[1].lastChecksum # NoChecksum
  /\ Cardinality(observed[1]) = 1
  /\ Len(JobsOf(1)) = 1

----------------------------------------------------------------------------

\* The keys that have an entry.
KeysIn(c) == {c[i].key : i \in 1..Len(c)}

\* C30: set() on a key that has an entry replaces the value and the
\* timestamp of that entry and evicts nothing, also when the cache holds
\* maxSize entries: every other key keeps its entry.
C30_SetOnPresentKeyEvictsNothing ==
  [][\A k \in CacheKeys :
       (SetOf(k) /\ k \in KeysIn(cache))
         => /\ KeysIn(cache') = KeysIn(cache)
            /\ cache'[CacheIndex(cache', k)].timestamp = now
            /\ \A other \in KeysIn(cache) \ {k} : EntryKept(other)]_vars

----------------------------------------------------------------------------

\* C31: whatever get, set, invalidate, clear and cleanup calls are made, the
\* cache holds at most maxSize entries, and a set() removes at most one key.
C31_SizeBounded ==
  /\ [](Len(cache) <= SmallMaxSize)
  /\ [][\A k \in CacheKeys :
          SetOf(k) => Cardinality(KeysIn(cache) \ KeysIn(cache')) <= 1]_vars

\* A full cache after a set() that evicted: the evicted key was set first
\* at time 0, two keys set later remain.
C31_Witness ==
  /\ Len(cache) = SmallMaxSize
  /\ fill.filling
  /\ Len(fill.keys) = SmallMaxSize + 1
  /\ fill.keys[1] \notin KeysIn(cache)
  /\ now > 0

----------------------------------------------------------------------------

\* C32: while a registration is active its deliveryAttempts is a
\* non-negative integer that never decreases, also when delivery
\* invocations for the registration overlap.
C32_AttemptsNeverDecrease ==
  /\ [](\A id \in DOMAIN webhooks : webhooks[id].deliveryAttempts >= 0)
  /\ [][\A id \in DOMAIN webhooks :
          webhooks[id].active
            => webhooks'[id].deliveryAttempts >= webhooks[id].deliveryAttempts]_vars

\* Three calls completed, the last write being that of the call that read
\* first: the counter stands at 1 after it stood at 2.
C32_CounterWentBack ==
  /\ Len(inc) = 3
  /\ AllDone
  /\ inc[1].read = 0
  /\ inc[2].read = 0
  /\ inc[3].read = 1
  /\ webhooks[1].deliveryAttempts = 1

----------------------------------------------------------------------------
(* The monitor schedule of a registration the cleanup worker deactivated.
   Bull runs a due instance, the handler's awaits resolve, the clock moves
   on and the cleanup cron fires. *)

FairMonitor ==
  /\ WF_vars(Tick)
  /\ WF_vars(Cleanup)
  /\ WF_vars(\E j \in monitorJobs : MonitorStart(j))
  /\ WF_vars(MonitorTrackOk \/ MonitorTrackFails)
  /\ WF_vars(MonitorNoChange \/ MonitorEnqueue \/ MonitorEnqueueFails)
  /\ WF_vars(MonitorWriteChecksum)

SpecSchedule == Init /\ [][NextCleanup]_vars /\ FairMonitor

\* C33: a registration made inactive by the cleanup worker, with a monitor
\* tick still to come, eventually has no monitor job in the queue: the next
\* tick for it removes the repeating schedule.
C33_ScheduleEventuallyRemoved ==
  \A id \in 1..MaxWebhooks :
    (Inactive(id) /\ now < MaxTicks * TrackingMonitorInterval)
      ~> (MonitorJobsOf(id) = {})

\* The registration was inactive before the last interval began, the
\* instance of this interval has run, and the next instance is queued.
C33_StillScheduled ==
  /\ Len(webhooks) = 1
  /\ ~webhooks[1].active
  /\ webhooks[1].expirationTime + TrackingMonitorInterval < now
  /\ now = MaxTicks * TrackingMonitorInterval
  /\ mon.pc = "idle"
  /\ \E j \in MonitorJobsOf(1) : j.runAt > now


-----------------------------------------------------------------------------
(* WebhookService.close() while the workers run.  close() awaits
   repository.close() and then queueManager.close(), which closes the three
   queues one after the other; a queue that is closing starts no further job
   and its close() returns when the job it is running has finished.  The
   store's connection is re-opened by the next query made on it, so a handler
   that runs after repository.close() proceeds as before. *)

\* repository.close(): the store's connection is released.
CloseRepository ==
  /\ service = ServiceOpen
  /\ service' = [service EXCEPT !.repository = "closed"]
  /\ UNCHANGED <<now, webhooks, monitorJobs, mon, deliveryJobs, del, logs, cache,
                 carrierData, observed, fill, tracked, inc, reply, sums>>

\* The handler of queue q is between two of its steps.
HandlerRunning(q) ==
  CASE q = "trackingMonitor" -> mon.pc # "idle"
    [] q = "webhookDelivery" -> del.pc # "idle"
    [] OTHER -> FALSE

\* queueManager.close() reaches queue number i: it stops taking jobs.
QueueCloseBegin(i) ==
  /\ service.repository = "closed"
  /\ \A k \in 1..(i - 1) : service[Queues[k]] = "closed"
  /\ service[Queues[i]] = "open"
  /\ service' = [service EXCEPT ![Queues[i]] = "closing"]
  /\ UNCHANGED <<now, webhooks, monitorJobs, mon, deliveryJobs, del, logs, cache,
                 carrierData, observed, fill, tracked, inc, reply, sums>>

\* queue.close() of queue number i returns: its running job has finished.
QueueCloseEnd(i) ==
  /\ service[Queues[i]] = "closing"
  /\ ~HandlerRunning(Queues[i])
  /\ service' = [service EXCEPT ![Queues[i]] = "closed"]
  /\ UNCHANGED <<now, webhooks, monitorJobs, mon, deliveryJobs, del, logs, cache,
                 carrierData, observed, fill, tracked, inc, reply, sums>>

NextClose ==
  \/ /\ service = ServiceOpen
     /\ \E c \in Carriers, tn \in TrackingNumbers, l \in Lifetimes : Register(c, tn, l)
  \/ \E j \in monitorJobs : MonitorStart(j)
  \/ MonitorTrackOk
  \/ MonitorTrackFails
  \/ MonitorNoChange
  \/ MonitorEnqueue
  \/ MonitorEnqueueFails
  \/ MonitorWriteChecksum
  \/ \E j \in DOMAIN deliveryJobs : DeliveryStart(j)
  \/ DeliveryIncrement
  \/ \E o \in SystemOutcomes : DeliveryComplete(o)
  \/ Cleanup
  \/ Tick
  \/ CloseRepository
  \/ \E i \in DOMAIN Queues : QueueCloseBegin(i)
  \/ \E i \in DOMAIN Queues : QueueCloseEnd(i)

SpecClose == Init /\ [][NextClose]_vars

\* A step of a monitor, delivery or cleanup handler.
HandlerStep ==
  \/ \E j \in monitorJobs : MonitorStart(j)
  \/ MonitorTrackOk
  \/ MonitorTrackFails
  \/ MonitorNoChange
  \/ MonitorEnqueue
  \/ MonitorEnqueueFails
  \/ MonitorWriteChecksum
  \/ \E j \in DOMAIN deliveryJobs : DeliveryStart(j)
  \/ DeliveryIncrement
  \/ \E o \in SystemOutcomes : DeliveryComplete(o)
  \/ Cleanup

\* C34: no monitor, delivery or cleanup handler takes a step once close() has
\* closed the store: the queue handlers are torn down before the store is.
C34_NoHandlerOnClosedStore == [][HandlerStep => service.repository = "open"]_vars


-----------------------------------------------------------------------------
(* The retries of one delivery job and the delays the queue gives them *)

\* The callback answered the fetch() calls of job j with these statuses, in order.
AnsweredWith(j, statuses) ==
  deliveryJobs[j].responses = [k \in DOMAIN statuses |-> Response(statuses[k])]

\* The logs of job j: three rows, numbered 1..3, the last one the success.
ThreeLogsLastSuccess(j) ==
  /\ Len(logs[j]) = 3
  /\ \A k \in 1..3 : logs[j][k].attemptNumber = k
  /\ ~logs[j][1].success /\ ~logs[j][2].success /\ logs[j][3].success

\* C35: a callback that answers 500, 500, 200 leaves exactly three delivery
\* logs, the last a success, and the queue has delayed attempt 2 by 60 s and
\* attempt 3 by 120 s (60 s * 2^(n-1) before attempt n+1).
C35_TwoRetriesBackoff ==
  \A j \in DOMAIN deliveryJobs :
    AnsweredWith(j, <<500, 500, 200>>)
      => /\ ThreeLogsLastSuccess(j)
         /\ deliveryJobs[j].delays = <<DeliveryBackoffDelay, 2 * DeliveryBackoffDelay>>


-----------------------------------------------------------------------------
(* The monitor while the carrier's answer changes in any field, the fields
   outside events included. *)

NextSender ==
  \/ \E c \in Carriers, tn \in TrackingNumbers, l \in Lifetimes : Register(c, tn, l)
  \/ \E j \in monitorJobs : MonitorStart(j)
  \/ MonitorTrackOk
  \/ MonitorTrackFails
  \/ MonitorNoChange
  \/ MonitorEnqueue
  \/ MonitorEnqueueFails
  \/ MonitorWriteChecksum
  \/ \E tn \in TrackingNumbers, ti \in DOMAIN TrackInfos : CarrierChange(tn, ti)
  \/ Tick

SpecSender == Init /\ [][NextSender]_vars

\* The TrackInfo the stored checksum of registration id was computed from:
\* the one of its last delivery job.
LastDelivered(id) == JobsOf(id)[Len(JobsOf(id))].trackInfo

\* C36: a monitor tick whose TrackInfo has the events of the TrackInfo the
\* stored checksum was computed from, whatever its other fields, computes
\* the stored checksum and enqueues no delivery job.
C36_OnlyEventsTrigger ==
  [][\A id \in DOMAIN webhooks :
       (/\ mon.pc = "tracked"
        /\ mon.id = id
        /\ mon' # mon
        /\ JobsOf(id) # <<>>
        /\ webhooks[id].lastChecksum = JobsOf(id)[Len(JobsOf(id))].currentChecksum
        /\ TrackInfos[mon.trackInfo].events = TrackInfos[LastDelivered(id)].events)
         => /\ Computed = webhooks[id].lastChecksum
            /\ deliveryJobs' = deliveryJobs]_vars

\* The second tick fetched an answer with the events of the first and
\* another sender, and the registration still has the one job of the first.
C36_Witness ==
  /\ now = 2 * TrackingMonitorInterval
  /\ mon.pc = "idle"
  /\ Len(webhooks) = 1
  /\ Len(JobsOf(1)) = 1
  /\ webhooks[1].lastCheckedAt = now
  /\ webhooks[1].lastChecksum = JobsOf(1)[1].currentChecksum
  /\ \E i \in DOMAIN cache :
       /\ cache[i].key = buildKey(webhooks[1].carrierId, webhooks[1].trackingNumber)
       /\ cache[i].timestamp = now
       /\ cache[i].data # LastDelivered(1)
       /\ TrackInfos[cache[i].data].events = TrackInfos[LastDelivered(1)].events
       /\ TrackInfos[cache[i].data].sender # TrackInfos[LastDelivered(1)].sender


-----------------------------------------------------------------------------

\* C37: the update that ends a monitor tick which detected a change and
\* enqueued a delivery stores the new checksum and the time of the tick and
\* leaves lastError empty, whatever error an earlier tick recorded.
C37_ChangeClearsLastError ==
  [][MonitorWriteChecksum
       => /\ webhooks'[mon.id].lastChecksum = Computed
          /\ webhooks'[mon.id].lastCheckedAt = now
          /\ webhooks'[mon.id].lastError = NoError]_vars


-----------------------------------------------------------------------------
(* The monitor worker when a call on the store or on a queue rejects: the
   catch block of process() records the error and rethrows, and Bull retries
   the job instance while attempts remain. *)

\* The catch block's update.
catchUpdate(ws, id, t) ==
  updateWebhook(ws, id, [lastCheckedAt |-> Def(t), lastError |-> Def(JobProcessingError)])

\* findWebhookById() rejects at the start of the invocation of job j.
MonitorLoadFails(j) ==
  /\ service.trackingMonitor = "open"
  /\ mon.pc = "idle"
  /\ j \in monitorJobs
  /\ now >= j.runAt
  /\ LET id == j.webhookRegistrationId
         queued == addRepeatingTrackingMonitorJob(monitorJobs \ {j}, id, now)
     IN /\ webhooks' = catchUpdate(webhooks, id, now)
        /\ monitorJobs' = MonitorJobsAfterThrow(queued, id, j.attemptsMade, now)
  /\ UNCHANGED <<now, mon, deliveryJobs, del, logs, cache, carrierData, observed,
                 fill, tracked, inc, reply, sums, service>>

\* The registration has expired: deactivateWebhook() succeeds and
\* removeTrackingMonitorJob() rejects.
MonitorExpiredRemoveFails(j) ==
  /\ service.trackingMonitor = "open"
  /\ mon.pc = "idle"
  /\ j \in monitorJobs
  /\ now >= j.runAt
  /\ LET id == j.webhookRegistrationId
         queued == addRepeatingTrackingMonitorJob(monitorJobs \ {j}, id, now)
     IN /\ webhooks[id].active
        /\ now > webhooks[id].expirationTime
        /\ webhooks' = catchUpdate(deactivateWebhook(webhooks, id), id, now)
        /\ monitorJobs' = MonitorJobsAfterThrow(queued, id, j.attemptsMade, now)
  /\ UNCHANGED <<now, mon, deliveryJobs, del, logs, cache, carrierData, observed,
                 fill, tracked, inc, reply, sums, service>>

\* After the enqueue: the updateWebhook() that stores the checksum rejects.
MonitorWriteChecksumFails ==
  /\ mon.pc = "enqueued"
  /\ webhooks' = catchUpdate(webhooks, mon.id, now)
  /\ monitorJobs' = MonitorJobsAfterThrow(monitorJobs, mon.id, mon.attemptsMade, now)
  /\ mon' = IdleMonitor
  /\ UNCHANGED <<now, deliveryJobs, del, logs, cache,
                 carrierData, observed, fill, tracked, inc, reply, sums, service>>

NextFailures ==
  \/ \E c \in Carriers, tn \in TrackingNumbers, l \in Lifetimes : Register(c, tn, l)
  \/ \E j \in monitorJobs : MonitorStart(j)
  \/ \E j \in monitorJobs : MonitorLoadFails(j)
  \/ \E j \in monitorJobs : MonitorExpiredRemoveFails(j)
  \/ MonitorTrackOk
  \/ MonitorTrackFails
  \/ MonitorNoChange
  \/ MonitorEnqueue
  \/ MonitorEnqueueFails
  \/ MonitorWriteChecksum
  \/ MonitorWriteChecksumFails
  \/ Tick

SpecFailures == Init /\ [][NextFailures]_vars

\* The invocation of job j for registration id, after a attempts, ends in a raise.
Raises(j, id, a) ==
  /\ j \in monitorJobs
  /\ j.webhookRegistrationId = id
  /\ j.attemptsMade = a
  /\ MonitorLoadFails(j) \/ MonitorExpiredRemoveFails(j)

RaisesRunning(id, a) ==
  /\ mon.id = id
  /\ mon.attemptsMade = a
  /\ MonitorEnqueueFails \/ MonitorWriteChecksumFails

\* The retry of the instance of registration id that is waiting, if any.
RetriesOf(jobs, id) ==
  {j \in jobs : j.webhookRegistrationId = id /\ j.attemptsMade > 0}

\* Bull after a raise of the invocation with a attempts made before it: one
\* retry while attempts remain, none after the third, and the next repeat
\* instance stays scheduled.
RetriedOrNextTick(id, a) ==
  /\ \A j \in monitorJobs' : j.attemptsMade < MonitorQueueAttempts
  /\ IF a + 1 < MonitorQueueAttempts
     THEN \E j \in RetriesOf(monitorJobs', id) : j.attemptsMade = a + 1 /\ j.runAt <= now
     ELSE RetriesOf(monitorJobs', id) = {}
  /\ \E j \in monitorJobs' :
       /\ j.webhookRegistrationId = id
       /\ j.attemptsMade = 0
       /\ j.runAt = now + TrackingMonitorInterval

\* C38 as stated: a monitor invocation that ends in a raise is retried by
\* the queue up to 3 attempts, after which the next periodic instance runs;
\* the invocation has changed neither lastChecksum nor active.
C38_RaiseChangesNeitherChecksumNorActive ==
  [][\A id \in DOMAIN webhooks, a \in 0..(MonitorQueueAttempts - 1) :
       ((\E j \in monitorJobs : Raises(j, id, a)) \/ RaisesRunning(id, a))
         => /\ RetriedOrNextTick(id, a)
            /\ webhooks'[id].lastChecksum = webhooks[id].lastChecksum
            /\ webhooks'[id].active = webhooks[id].active]_vars

\* C38: a monitor invocation that ends in a raise is retried by the queue up
\* to 3 attempts, after which the next periodic instance runs; the
\* invocation has not changed lastChecksum, and it has changed active only
\* by deactivating a registration it found expired.
C38_RaiseRetriedChecksumKept ==
  [][\A id \in DOMAIN webhooks, a \in 0..(MonitorQueueAttempts - 1) :
       ((\E j \in monitorJobs : Raises(j, id, a)) \/ RaisesRunning(id, a))
         => /\ RetriedOrNextTick(id, a)
            /\ webhooks'[id].lastChecksum = webhooks[id].lastChecksum
            /\ webhooks'[id].active # webhooks[id].active
                 => /\ ~webhooks'[id].active
                    /\ now > webhooks[id].expirationTime]_vars

\* Every invocation of the first tick raised and no retry is left, so the
\* third attempt has raised: the registration is active without a checksum
\* and the instance of the next tick is scheduled.
C38_Witness ==
  /\ now = TrackingMonitorInterval
  /\ mon.pc = "idle"
  /\ Len(webhooks) = 1
  /\ webhooks[1].active
  /\ webhooks[1].lastChecksum = NoChecksum
  /\ webhooks[1].lastError = JobProcessingError
  /\ webhooks[1].lastCheckedAt = now
  /\ deliveryJobs = <<>>
  /\ monitorJobs # {}
  /\ \A j \in monitorJobs : j.attemptsMade = 0 /\ j.runAt = now + TrackingMonitorInterval


-----------------------------------------------------------------------------
(* registerWebhook() when the store or the monitor queue rejects.  The
   method awaits createWebhook() and then addRepeatingTrackingMonitorJob()
   with no handler around either: a rejection leaves the method at once. *)

\* A thrown error that is not a validation error.
InternalError == [kind |-> "Error", id |-> 0]

\* createWebhook() rejects: nothing was inserted.
RegisterInsertFails(carrierId, trackingNumber, lifetime) ==
  /\ Len(webhooks) < MaxWebhooks
  /\ reply' = InternalError
  /\ UNCHANGED <<now, webhooks, monitorJobs, mon, deliveryJobs, del, logs, cache,
                 carrierData, observed, fill, tracked, inc, sums, service>>

\* createWebhook() has inserted the row and addRepeatingTrackingMonitorJob()
\* rejects.
RegisterScheduleFails(carrierId, trackingNumber, lifetime) ==
  /\ Len(webhooks) < MaxWebhooks
  /\ webhooks' = Append(webhooks, NewWebhook(carrierId, trackingNumber, now + lifetime))
  /\ observed' = Append(observed, {})
  /\ reply' = InternalError
  /\ UNCHANGED <<now, monitorJobs, mon, deliveryJobs, del, logs, cache, carrierData,
                 fill, tracked, inc, sums, service>>

NextRegisterFails ==
  \/ \E c \in Carriers, tn \in TrackingNumbers, l \in Lifetimes : Register(c, tn, l)
  \/ \E c \in Carriers, tn \in TrackingNumbers, l \in Lifetimes :
       RegisterInsertFails(c, tn, l)
  \/ \E c \in Carriers, tn \in TrackingNumbers, l \in Lifetimes :
       RegisterScheduleFails(c, tn, l)
  \/ \E id \in DOMAIN webhooks : Deactivate(id)
  \/ \E j \in monitorJobs : MonitorStart(j)
  \/ MonitorTrackOk
  \/ MonitorTrackFails
  \/ MonitorNoChange
  \/ MonitorEnqueue
  \/ MonitorEnqueueFails
  \/ MonitorWriteChecksum
  \/ Cleanup
  \/ Tick

SpecRegisterFails == Init /\ [][NextRegisterFails]_vars

\* A registerWebhook call raises.
RegisterRaises ==
  \E c \in Carriers, tn \in TrackingNumbers, l \in Lifetimes :
    RegisterInsertFails(c, tn, l) \/ RegisterScheduleFails(c, tn, l)

\* Every active registration that has not expired has a monitor job
\* scheduled under its id.
ActiveAreScheduled ==
  \A id \in DOMAIN webhooks :
    (webhooks[id].active /\ ~Expired(id)) => MonitorJobsOf(id) # {}

\* C39: a registerWebhook call that raises leaves no new registration in the
\* store, and in every state each active unexpired registration has a
\* repeating monitor job scheduled under its id.
C39_RegisterAllOrNothing ==
  /\ []ActiveAreScheduled
  /\ [][RegisterRaises => webhooks' = webhooks]_vars


-----------------------------------------------------------------------------

\* The delivery handler ends an attempt for registration id on a 2xx answer.
DeliverySucceeds(id) ==
  /\ del.pc = "posting"
  /\ deliveryJobs[del.job].webhookRegistrationId = id
  /\ \E o \in SystemOutcomes : IsSuccessStatus(o.status) /\ DeliveryComplete(o)

\* C40: no step of the facade, the monitor, the delivery worker or the
\* cleanup worker takes a registration from inactive to active; a delivery
\* attempt that ends on a 2xx answer leaves the flag as it found it.
C40_InactiveStaysInactive ==
  [][\A id \in DOMAIN webhooks :
       /\ webhooks'[id].active => webhooks[id].active
       /\ DeliverySucceeds(id) => webhooks'[id].active = webhooks[id].active]_vars

\* The monitor ran at the second tick without writing lastCheckedAt, so it
\* found or made the registration inactive; the one delivery job of the
\* registration started its last attempt at the third tick and ended on a
\* 2xx answer; the registration is inactive.
C40_Witness ==
  /\ now = 3 * TrackingMonitorInterval
  /\ mon.pc = "idle"
  /\ del.pc = "idle"
  /\ Len(webhooks) = 1
  /\ ~webhooks[1].active
  /\ webhooks[1].lastCheckedAt = TrackingMonitorInterval
  /\ webhooks[1].lastDeliveryAt = now
  /\ \A j \in monitorJobs : j.runAt = now
  /\ monitorJobs # {}
  /\ Cardinality(JobIdsOf(1)) = 1
  /\ \A j \in JobIdsOf(1) :
       /\ deliveryJobs[j].state = "completed"
       /\ logs[j][Len(logs[j])].success
       /\ IsSuccessStatus(LastResponse(j).status)

====
